---- MODULE Spec2Model ----
(***************************************************************************)
(* Storage and block-ingest core of ton-indexer:                           *)
(*   - CellStorage   (storage/shard_state_storage/cell_storage.rs)         *)
(*   - ArchiveManager (storage/archive_manager.rs)                         *)
(*   - broadcast validation (engine/complex_operations/shard_client.rs)    *)
(* Each subsystem has its own specification over the shared variables; the *)
(* variables of the other subsystems stay at their initial value.          *)
(***************************************************************************)
EXTENDS Integers, Sequences, FiniteSets, TLC

VARIABLES
    \* --- CellStorage
    cells,          \* the `cells` column: hash -> row (refcount ++ body)
    batch,          \* the caller's rocksdb::WriteBatch: merges not yet written
    pending,        \* TRUE between a store_cell/remove_cell call and db.write(batch)
    log,            \* ghost: the calls made so far, with what they returned
    \* --- ArchiveManager: archives
    archive_ids,    \* ArchiveManager::archive_ids, the in-memory BTreeSet<u32>
    archives,       \* the `archives` column: id -> the segments merged into it
    handles,        \* the block handles: mc seq_no and meta flags
    assigned,       \* ghost: handle -> the id compute_archive_id returned for it
    aret,           \* ghost: the last move_into_archive call and its result
    \* --- ArchiveManager: block gc
    package_entries,\* the `package_entries` column: the keys that have a row
    block_handles,  \* the `block_handles` column: the root hashes that have a row
    key_blocks,     \* the `key_blocks` column: the seq_nos that have a row
    gc,             \* the running gc() call: its arguments, locals and result
    \* --- block broadcasts
    validators,     \* the weights of the validator subset calc_subset derives
    block_store,    \* block id -> the flags of its handle (no entry: no handle)
    last_applied_mc,\* engine.load_last_applied_mc_block_id().seq_no
    shards_client_mc,\* engine.load_shards_client_mc_block_id().seq_no
    \* --- readers, walkers and concurrent callers
    reader,         \* a client reading an archive slice by slice
    walker,         \* walk_masterchain_blocks: its position and where it is
    shards,         \* walk_shard_blocks and the tasks of load_shard_blocks
    race,           \* the process_block_broadcast calls: where each one is
    movers,         \* concurrent move_into_archive calls: where each one is
    cache,          \* CellStorage::cells_cache and the StorageCells alive
    par             \* store_cell / remove_cell invocations running in parallel

cellVars == <<cells, batch, pending, log>>
archVars == <<archive_ids, archives, handles, assigned, aret>>

gcVars == <<package_entries, block_handles, key_blocks, gc>>

bcVars == <<validators, block_store, last_applied_mc, shards_client_mc>>

extVars == <<reader, walker, shards, race, movers, cache, par>>

vars == <<cellVars, archVars, gcVars, bcVars, extVars>>

\* The state of each subsystem while another one is being explored.
IdleCells ==
    /\ cells = [h \in {} |-> 0]
    /\ batch = <<>>
    /\ pending = FALSE
    /\ log = <<>>

IdleArchive ==
    /\ archive_ids = {}
    /\ archives = <<>>
    /\ handles = <<>>
    /\ assigned = <<>>
    /\ aret = <<>>

IdleGc ==
    /\ package_entries = {}
    /\ block_handles = {}
    /\ key_blocks = {}
    /\ gc = <<>>

IdleBroadcast ==
    /\ validators = <<>>
    /\ block_store = <<>>
    /\ last_applied_mc = 0
    /\ shards_client_mc = 0

IdleExt ==
    /\ reader = <<>>
    /\ walker = <<>>
    /\ shards = <<>>
    /\ race = <<>>
    /\ movers = <<>>
    /\ cache = <<>>
    /\ par = <<>>

(***************************************************************************)
(*                              CELL STORAGE                               *)
(***************************************************************************)

\* Bound: the number of store_cell / remove_cell calls of one run.
MaxOps == 4

\* The cell hashes of the model: the DAG of scenarios S1/S2,
\* C0 -> {C1, C2}, C1 -> C3, C2 -> C3.
Hashes == {"C0", "C1", "C2", "C3"}

\* The orders in which `for (key, ..) in transaction` can visit a FastHashMap
\* holding the four hashes: the iteration order depends on the hasher and on
\* the insertion history, so every enumeration of the keys is possible.
HashOrder ==
    {order \in [1..Cardinality(Hashes) -> Hashes] :
        \A i, j \in 1..Cardinality(Hashes) : order[i] = order[j] => i = j}

\* cell.reference(i), i = 0 .. references_count()-1, as a sequence of hashes.
References(c) ==
    CASE c = "C0" -> <<"C1", "C2">>
      [] c = "C1" -> <<"C3">>
      [] c = "C2" -> <<"C3">>
      [] OTHER    -> <<>>

\* A row of the cells column. present = FALSE: no row under the key.
NoRow == [present |-> FALSE, rc |-> 0, body |-> FALSE]

\* refcount::has_value: the row carries a positive refcount.
has_value(value) == value.present /\ value.rc > 0

\* refcount::decode_value_with_rc: (rc, Some(body)) for a live row, (rc, None)
\* for a row whose refcount is <= 0.
decode_value_with_rc(value) ==
    [rc |-> value.rc, payload |-> (value.rc > 0 /\ value.body)]

\* The refcount merge operator: (rc, body) + delta, the body taken from the
\* first insertion carrying one; a positive delta may arrive before any row.
merge_operator(existing, operand) ==
    [present |-> TRUE,
     rc      |-> existing.rc + operand.delta,
     body    |-> existing.body \/ operand.data]

\* The refcount of a row as a reader sees it (0 when there is no row).
EffectiveRc(db, h) == IF db[h].present THEN db[h].rc ELSE 0

\* ---------------------------------------------------------------- store_cell

\* Context::transaction, as hash -> local rc; 0 stands for a vacant entry.
EmptyTransaction == [h \in Hashes |-> 0]

MutInsertNoBump(transaction, key, value) ==
    IF transaction[key] > 0
    THEN [transaction |-> transaction, new |-> FALSE]
    ELSE [transaction |-> [transaction EXCEPT ![key] = 1],
          new |-> ~has_value(value)]

\* Context::insert_cell: Occupied -> rc += 1, false;
\* Vacant -> insert rc = 1 with the serialized cell, !has_value.
insert_cell(transaction, key, value) ==
    IF transaction[key] > 0
    THEN [transaction |-> [transaction EXCEPT ![key] = @ + 1], new |-> FALSE]
    ELSE [transaction |-> [transaction EXCEPT ![key] = 1],
          new |-> ~has_value(value)]

\* The `for i in 0..current.references_count()` loop of store_cell.
RECURSIVE StoreRefs(_, _, _, _, _)
StoreRefs(db, current, i, stack, transaction) ==
    IF i > Len(References(current))
    THEN [stack |-> stack, transaction |-> transaction]
    ELSE LET cell == References(current)[i]
             r    == insert_cell(transaction, cell, db[cell])
         IN  StoreRefs(db, current, i + 1,
                       IF r.new THEN Append(stack, cell) ELSE stack,
                       r.transaction)

\* The `while let Some(current) = stack.pop()` loop of store_cell.
RECURSIVE StoreLoop(_, _, _)
StoreLoop(db, stack, transaction) ==
    IF stack = <<>>
    THEN transaction
    ELSE LET current == stack[Len(stack)]
             s == StoreRefs(db, current, 1, SubSeq(stack, 1, Len(stack) - 1),
                            transaction)
         IN  StoreLoop(db, s.stack, s.transaction)

\* Context::finalize: one merge (positive delta rc, with the body) per entry
\* of the transaction, in the order `order` in which the map is iterated.
RECURSIVE FinalizeFrom(_, _, _)
FinalizeFrom(transaction, order, i) ==
    IF i > Len(order) THEN <<>>
    ELSE LET h == order[i]
         IN  (IF transaction[h] > 0
              THEN <<[key |-> h, delta |-> transaction[h], data |-> TRUE]>>
              ELSE <<>>) \o FinalizeFrom(transaction, order, i + 1)

finalize(transaction, order) ==
    [total  |-> Cardinality({h \in Hashes : transaction[h] > 0}),
     merges |-> FinalizeFrom(transaction, order, 1)]

\* CellStorage::store_cell(batch, root): what it returns and what it appends
\* to the batch. A root whose row has a value returns Ok(0) before finalize.
store_cell(db, root, order) ==
    LET r == insert_cell(EmptyTransaction, root, db[root])
    IN  IF ~r.new
        THEN [ok |-> TRUE, n |-> 0, err |-> "", merges |-> <<>>]
        ELSE LET f == finalize(StoreLoop(db, <<root>>, r.transaction), order)
             IN  [ok |-> TRUE, n |-> f.total, err |-> "", merges |-> f.merges]

\* --------------------------------------------------------------- remove_cell

\* The transaction of remove_cell, hash -> CellState{rc, removes}; removes = 0
\* stands for a vacant entry (refs are References(hash), read from the body).
EmptyRemoves == [h \in Hashes |-> [rc |-> 0, removes |-> 0]]

\* CellState::next_refs: None while other holders remain (rc > removes).
next_refs(state, refs) ==
    IF state.rc > state.removes
    THEN [some |-> FALSE, refs |-> <<>>]
    ELSE [some |-> TRUE, refs |-> refs]

\* CellState::remove: removes += 1; CounterMismatch when removes > rc.
CellState_remove(state, refs) ==
    LET s == [state EXCEPT !.removes = @ + 1]
    IN  IF s.removes <= s.rc
        THEN [err |-> "", state |-> s, next |-> next_refs(s, refs)]
        ELSE [err |-> "CounterMismatch", state |-> s,
              next |-> [some |-> FALSE, refs |-> <<>>]]

\* One visit of the `while let Some(cell_id) = stack.pop()` loop: the entry of
\* the transaction is Occupied (remove()) or Vacant (read the row, decode rc).
RemoveVisit(db, cell_id, transaction) ==
    IF transaction[cell_id].removes > 0
    THEN CellState_remove(transaction[cell_id], References(cell_id))
    ELSE IF db[cell_id].present /\ decode_value_with_rc(db[cell_id]).payload
         THEN LET s == [rc |-> decode_value_with_rc(db[cell_id]).rc, removes |-> 1]
              IN  [err |-> "", state |-> s,
                   next |-> next_refs(s, References(cell_id))]
         ELSE [err |-> "CellNotFound", state |-> transaction[cell_id],
               next |-> [some |-> FALSE, refs |-> <<>>]]

RECURSIVE RemoveLoop(_, _, _)
RemoveLoop(db, stack, transaction) ==
    IF stack = <<>>
    THEN [err |-> "", transaction |-> transaction]
    ELSE LET cell_id == stack[Len(stack)]
             rest    == SubSeq(stack, 1, Len(stack) - 1)
             v       == RemoveVisit(db, cell_id, transaction)
         IN  IF v.err # ""
             THEN [err |-> v.err, transaction |-> transaction]
             ELSE RemoveLoop(db,
                             IF v.next.some THEN rest \o v.next.refs ELSE rest,
                             [transaction EXCEPT ![cell_id] = v.state])

\* The finalization of remove_cell: one merge per touched cell, the negative
\* delta `removes` (refcount::encode_negative_refcount), in the order `order`
\* in which the map is iterated.
RECURSIVE RemoveMergesFrom(_, _, _)
RemoveMergesFrom(transaction, order, i) ==
    IF i > Len(order) THEN <<>>
    ELSE LET h == order[i]
         IN  (IF transaction[h].removes > 0
              THEN <<[key |-> h, delta |-> 0 - transaction[h].removes,
                      data |-> FALSE]>>
              ELSE <<>>) \o RemoveMergesFrom(transaction, order, i + 1)

MutRemoveEmitsOnError(db, hash, order) ==
    LET r == RemoveLoop(db, <<hash>>, EmptyRemoves)
    IN  IF r.err # ""
        THEN [ok |-> FALSE, n |-> 0, err |-> r.err,
              merges |-> RemoveMergesFrom(r.transaction, order, 1)]
        ELSE [ok |-> TRUE,
              n |-> Cardinality({h \in Hashes : r.transaction[h].removes > 0}),
              err |-> "", merges |-> RemoveMergesFrom(r.transaction, order, 1)]

\* CellStorage::remove_cell(batch, alloc, hash): an error leaves the batch as
\* it was; Ok(total) appends the merges.
remove_cell(db, hash, order) ==
    LET r == RemoveLoop(db, <<hash>>, EmptyRemoves)
    IN  IF r.err # ""
        THEN [ok |-> FALSE, n |-> 0, err |-> r.err, merges |-> <<>>]
        ELSE [ok |-> TRUE,
              n |-> Cardinality({h \in Hashes : r.transaction[h].removes > 0}),
              err |-> "", merges |-> RemoveMergesFrom(r.transaction, order, 1)]

\* ------------------------------------------------------- the cells column

\* db.write(batch): the merges of the batch applied to the column in order.
RECURSIVE ApplyMerges(_, _)
ApplyMerges(db, merges) ==
    IF merges = <<>> THEN db
    ELSE ApplyMerges([db EXCEPT ![Head(merges).key] =
                          merge_operator(@, Head(merges))],
                     Tail(merges))

\* The merges of a sequence, without their order.
Range(seq) == {seq[i] : i \in 1..Len(seq)}

\* Calls of `op` on `root` in the log.
Calls(lg, op, root) ==
    Cardinality({i \in 1..Len(lg) : lg[i].op = op /\ lg[i].root = root})

\* How often `root` is held: stored more often than removed.
Held(lg, root) == Calls(lg, "store", root) - Calls(lg, "remove", root)

InitCells ==
    /\ cells = [h \in Hashes |-> NoRow]
    /\ batch = <<>>
    /\ pending = FALSE
    /\ log = <<>>
    /\ IdleArchive
    /\ IdleGc
    /\ IdleBroadcast
    /\ IdleExt

\* A caller stores `root`: store_cell(&mut batch, root).
StoreCell(root) ==
    /\ ~pending
    /\ Len(log) < MaxOps
    /\ \E order \in HashOrder :
       LET r == store_cell(cells, root, order)
       IN  /\ batch' = batch \o r.merges
           /\ log' = Append(log, [op |-> "store", root |-> root, ok |-> r.ok,
                                  n |-> r.n, err |-> r.err,
                                  had |-> has_value(cells[root]),
                                  rc_before |-> EffectiveRc(cells, root),
                                  merges |-> Range(r.merges)])
    /\ pending' = TRUE
    /\ UNCHANGED <<cells, archVars, gcVars, bcVars, extVars>>

\* A caller removes a root it stored earlier: remove_cell(&mut batch, .., root).
RemoveCell(root) ==
    /\ ~pending
    /\ Len(log) < MaxOps
    /\ Held(log, root) > 0
    /\ \E order \in HashOrder :
       LET r == remove_cell(cells, root, order)
       IN  /\ batch' = batch \o r.merges
           /\ log' = Append(log, [op |-> "remove", root |-> root, ok |-> r.ok,
                                  n |-> r.n, err |-> r.err,
                                  had |-> has_value(cells[root]),
                                  rc_before |-> EffectiveRc(cells, root),
                                  merges |-> Range(r.merges)])
    /\ pending' = TRUE
    /\ UNCHANGED <<cells, archVars, gcVars, bcVars, extVars>>

\* The caller writes its batch: db.write(batch).
WriteBatch ==
    /\ pending
    /\ cells' = ApplyMerges(cells, batch)
    /\ batch' = <<>>
    /\ pending' = FALSE
    /\ UNCHANGED <<log, archVars, gcVars, bcVars, extVars>>

\* Compaction drops the tombstones (rows whose refcount is <= 0).
Compact ==
    /\ \E h \in Hashes : cells[h].present /\ cells[h].rc <= 0
    /\ cells' = [h \in Hashes |->
                    IF cells[h].present /\ cells[h].rc <= 0 THEN NoRow
                    ELSE cells[h]]
    /\ UNCHANGED <<batch, pending, log, archVars, gcVars, bcVars, extVars>>

NextCells ==
    \/ \E root \in Hashes : StoreCell(root)
    \/ \E root \in Hashes : RemoveCell(root)
    \/ WriteBatch
    \/ Compact

SpecCells == InitCells /\ [][NextCells]_vars

\* ------------------------------------------------- claims on the cell store

Last(lg) == lg[Len(lg)]

\* The hashes reachable from a set of hashes along References.
RECURSIVE ReachableFrom(_)
ReachableFrom(S) ==
    LET T == S \cup {c \in Hashes :
                       \E h \in S : \E i \in 1..Len(References(h)) :
                           References(h)[i] = c}
    IN  IF T = S THEN S ELSE ReachableFrom(T)

\* The rows a reader sees: effective refcount > 0.
LiveRows == {h \in Hashes : EffectiveRc(cells, h) > 0}

\* The roots still held: stored more often than removed.
HeldRoots == {r \in Hashes : Held(log, r) > 0}

\* C1 (as claimed): refcount closure. Once every batch is written, the rows
\* with effective refcount > 0 are exactly the hashes reachable from the roots
\* that are still held.
C1_RefcountClosure ==
    ~pending => LiveRows = ReachableFrom(HeldRoots)

\* C2 (as claimed): dedup. A store_cell of a root whose row already has a
\* positive refcount returns 0, writes no body, and once its batch is written
\* the root's refcount is one more than before the call.
C2_DedupBumpsRoot ==
    (log # <<>> /\ ~pending /\ Last(log).op = "store" /\ Last(log).had)
        => /\ Last(log).n = 0
           /\ \A m \in Last(log).merges : ~m.data
           /\ EffectiveRc(cells, Last(log).root) = Last(log).rc_before + 1

\* Scenario S1 has run: on a fresh store, store_cell(C0), batch written.
S1Done ==
    /\ Len(log) = 1 /\ log[1].op = "store" /\ log[1].root = "C0"
    /\ ~pending

\* C3 (as claimed): S1 writes exactly 4 rows and every one of the four rows
\* has refcount 1.
C3_S1_AllRefcountsOne ==
    S1Done => /\ log[1].n = 4
              /\ Cardinality(log[1].merges) = 4
              /\ \A h \in Hashes : EffectiveRc(cells, h) = 1

\* C3 (amended): S1 writes exactly 4 rows; C0, C1 and C2 have refcount 1 and
\* the grandchild C3, referenced by both C1 and C2, has refcount 2.
C3_S1_RefcountPerEdge ==
    S1Done => /\ log[1].n = 4
              /\ Cardinality(log[1].merges) = 4
              /\ \A h \in {"C0", "C1", "C2"} : EffectiveRc(cells, h) = 1
              /\ EffectiveRc(cells, "C3") = 2

C3_Witness == S1Done /\ EffectiveRc(cells, "C3") = 2

\* The calls of scenario S2, in order.
IsCall(e, op, root) == e.op = op /\ e.root = root

S2Prefix(k) ==
    /\ Len(log) = k
    /\ ~pending
    /\ IsCall(log[1], "store", "C0")
    /\ k >= 2 => IsCall(log[2], "store", "C0")
    /\ k >= 3 => IsCall(log[3], "remove", "C0")
    /\ k >= 4 => IsCall(log[4], "remove", "C0")

\* C4 (as claimed): S2. After two written stores of C0 and one written
\* remove_cell(C0) all four rows are present with refcount 1; a second
\* remove_cell(C0) succeeds and leaves no row with a positive refcount.
C4_S2_StoreTwiceRemoveOnce ==
    /\ S2Prefix(3) => /\ log[3].ok
                      /\ \A h \in Hashes : EffectiveRc(cells, h) = 1
    /\ S2Prefix(4) => /\ log[4].ok
                      /\ LiveRows = {}

\* C25: a failing remove_cell leaves the batch untouched. A call on a root
\* without a live row fails with CellNotFound; every failing call
\* (CellNotFound, CounterMismatch) appends no merge; a succeeding call
\* appends exactly one merge per touched cell, a negative delta whose size
\* is at most the cell's on-disk refcount, so that writing the batch leaves
\* no refcount negative.
C25_RemoveFailureLeavesBatch ==
    [][ ( /\ Len(log') = Len(log) + 1
          /\ log'[Len(log')].op = "remove" )
        => LET e == log'[Len(log')]
           IN  /\ ~has_value(cells[e.root])
                     => (~e.ok /\ e.err = "CellNotFound")
               /\ ~e.ok => /\ e.err \in {"CellNotFound", "CounterMismatch"}
                           /\ batch' = batch
               /\ e.ok =>
                    /\ Len(batch') = Len(batch) + e.n
                    /\ SubSeq(batch', 1, Len(batch)) = batch
                    /\ Range(SubSeq(batch', Len(batch) + 1, Len(batch')))
                          = e.merges
                    /\ Cardinality(e.merges) = e.n
                    /\ \A m1, m2 \in e.merges : m1.key = m2.key => m1 = m2
                    /\ \A m \in e.merges :
                         /\ m.delta < 0
                         /\ has_value(cells[m.key])
                         /\ 0 - m.delta <= cells[m.key].rc
                    /\ \A h \in Hashes :
                         ApplyMerges(cells, batch')[h].rc >= 0 ]_vars

\* One remove_cell failed with CounterMismatch after having visited several
\* cells and appended nothing, and an earlier one succeeded.
C25_Witness ==
    /\ \E i \in 1..Len(log) :
         /\ log[i].op = "remove"
         /\ log[i].err = "CounterMismatch"
         /\ log[i].merges = {}
    /\ \E i \in 1..Len(log) :
         /\ log[i].op = "remove"
         /\ log[i].ok
         /\ log[i].merges # {}
    /\ batch = <<>>
    /\ pending

(***************************************************************************)
(*                       ARCHIVE MANAGER: ARCHIVE IDS                      *)
(***************************************************************************)

ARCHIVE_PACKAGE_SIZE == 100
ARCHIVE_SLICE_SIZE == 20000

\* Option<u32>.
None == [some |-> FALSE, id |-> 0]
Some(id) == [some |-> TRUE, id |-> id]

\* The greatest element of a non-empty set of numbers.
MaxOf(S) == CHOOSE x \in S : \A y \in S : y <= x

\* archive_ids.range(..=mc_seq_no).next_back()
RangeToNextBack(ids, mc_seq_no) ==
    LET below == {id \in ids : id <= mc_seq_no}
    IN  IF below = {} THEN None ELSE Some(MaxOf(below))

\* ArchiveManager::get_archive_id
get_archive_id(ids, mc_seq_no) ==
    LET last == RangeToNextBack(ids, mc_seq_no)
    IN  IF last.some /\ mc_seq_no < last.id + ARCHIVE_PACKAGE_SIZE
        THEN Some(last.id)
        ELSE None

\* u32::saturating_sub
saturating_sub(a, b) == IF a >= b THEN a - b ELSE 0

MutComputeIgnoresKeyBlock(ids, handle) ==
    LET mc_seq_no == handle.mc_seq_no
        aligned   == mc_seq_no - (mc_seq_no % ARCHIVE_SLICE_SIZE)
        prev_id   == RangeToNextBack(ids, mc_seq_no)
        archive_id == IF prev_id.some /\ aligned < prev_id.id
                      THEN prev_id.id ELSE aligned
    IN  IF saturating_sub(mc_seq_no, archive_id) >= ARCHIVE_PACKAGE_SIZE
        THEN [id |-> mc_seq_no, ids |-> ids \cup {mc_seq_no}]
        ELSE [id |-> archive_id, ids |-> ids]

MutComputeNoPackageSplit(ids, handle) ==
    LET mc_seq_no == handle.mc_seq_no
        aligned   == mc_seq_no - (mc_seq_no % ARCHIVE_SLICE_SIZE)
        prev_id   == RangeToNextBack(ids, mc_seq_no)
        archive_id == IF prev_id.some /\ aligned < prev_id.id
                      THEN prev_id.id ELSE aligned
    IN  IF handle.is_key_block
        THEN [id |-> mc_seq_no, ids |-> ids \cup {mc_seq_no}]
        ELSE [id |-> archive_id, ids |-> ids]

\* ArchiveManager::compute_archive_id: the id it returns and archive_ids
\* after the call (it registers mc_seq_no for a key block and when the chosen
\* id is ARCHIVE_PACKAGE_SIZE or more behind; otherwise it registers nothing).
compute_archive_id(ids, handle) ==
    LET mc_seq_no == handle.mc_seq_no
        aligned   == mc_seq_no - (mc_seq_no % ARCHIVE_SLICE_SIZE)
        prev_id   == RangeToNextBack(ids, mc_seq_no)
        archive_id == IF prev_id.some /\ aligned < prev_id.id
                      THEN prev_id.id ELSE aligned
    IN  IF handle.is_key_block
        THEN [id |-> mc_seq_no, ids |-> ids \cup {mc_seq_no}]
        ELSE IF saturating_sub(mc_seq_no, archive_id) >= ARCHIVE_PACKAGE_SIZE
             THEN [id |-> mc_seq_no, ids |-> ids \cup {mc_seq_no}]
             ELSE [id |-> archive_id, ids |-> ids]

\* A block handle: masterchain_ref_seqno() and the meta flags read here.
Handle(mc_seq_no, is_key_block, is_link) ==
    [mc_seq_no |-> mc_seq_no, is_key_block |-> is_key_block,
     has_data |-> TRUE, has_proof |-> ~is_link, has_proof_link |-> is_link,
     is_archived |-> FALSE, is_moving_to_archive |-> FALSE]

\* The segments move_into_archive builds for a handle: the block data if
\* has_data, then the proof or the proof link.
Segments(h, handle) ==
    (IF handle.has_data THEN <<[block |-> h, kind |-> "Block"]>> ELSE <<>>)
    \o (IF handle.has_proof THEN <<[block |-> h, kind |-> "Proof"]>>
        ELSE IF handle.has_proof_link
             THEN <<[block |-> h, kind |-> "ProofLink"]>>
             ELSE <<>>)

\* batch.merge_cf(archives, id, segment) for each segment, then db.write:
\* the archive merge operator concatenates.
MergeArchive(col, id, segs) ==
    IF segs = <<>> THEN col
    ELSE [k \in DOMAIN col \cup {id} |->
            IF k = id
            THEN (IF id \in DOMAIN col THEN col[id] ELSE <<>>) \o segs
            ELSE col[k]]

\* ------------------------------------------------- move_into_archive, by step

\* The threads that call move_into_archive / move_into_archive_with_data.
MoverThreads == {"t1", "t2", "t3"}

\* A thread that is not inside a call.
IdleMover ==
    [pc |-> "idle", h |-> 0, with_data |-> FALSE, won |-> FALSE, ok |-> FALSE,
     merged |-> FALSE, id |-> 0, put |-> FALSE]

\* The segments a call merges: move_into_archive builds them from the package
\* entries, move_into_archive_with_data is given the body and the proof.
CallSegments(m) ==
    IF m.with_data
    THEN <<[block |-> m.h, kind |-> "Block"], [block |-> m.h, kind |-> "Proof"]>>
    ELSE Segments(m.h, handles[m.h])

\* handle.has_proof_or_link(&mut is_link)
has_proof_or_link(handle) == handle.has_proof \/ handle.has_proof_link

\* Where a call that won the flag goes on: `if has_data { block_data_lock()
\* .write().await`, then `if has_proof { proof_data_lock().write().await`,
\* then compute_archive_id; move_into_archive_with_data has no locks to take.
AfterCas(m) ==
    IF m.with_data THEN "compute"
    ELSE IF handles[m.h].has_data THEN "body"
    ELSE IF has_proof_or_link(handles[m.h]) THEN "proof"
    ELSE "compute"

AfterSegment(m) ==
    IF m.pc = "body" /\ has_proof_or_link(handles[m.h]) THEN "proof"
    ELSE "compute"

\* The pcs at which a call of move_into_archive is queued for, or holds, the
\* write guard of block_data_lock ("body") or proof_data_lock ("proof"): the
\* guards live in `block_data` / `block_proof_data` until the call returns.
GuardPcs(k) ==
    IF k = "body"
    THEN {"body", "proof", "compute", "register", "flag", "write"}
    ELSE {"proof", "compute", "register", "flag", "write"}

WriteGuard(h, k) ==
    \E t \in DOMAIN movers :
        /\ movers[t].h = h
        /\ ~movers[t].with_data
        /\ movers[t].pc \in GuardPcs(k)
        /\ IF k = "body" THEN handles[h].has_data
           ELSE has_proof_or_link(handles[h])

\* remove_outdated_archives holds archive_ids.write() from its first line
\* until it returns.
IdsLocked == aret.op = "removing"

\* A thread calls move_into_archive (with_data FALSE) or
\* move_into_archive_with_data (TRUE) and makes the first check:
\* `if handle.meta().is_archived() { return Ok(()) }`.
MoverCall(t, h, with_data) ==
    /\ movers[t].pc \in {"idle", "done"}
    /\ movers' = [movers EXCEPT ![t] =
                    [IdleMover EXCEPT
                       !.pc = IF handles[h].is_archived THEN "done" ELSE "cas",
                       !.h = h, !.with_data = with_data, !.ok = TRUE]]
    /\ UNCHANGED <<reader, walker, shards, race, cache, par>>
    /\ UNCHANGED <<cellVars, archVars, gcVars, bcVars>>

MutMoverCasAlwaysWins(t) ==
    /\ movers[t].pc = "cas"
    /\ handles' = [handles EXCEPT ![movers[t].h].is_moving_to_archive = TRUE]
    /\ movers' = [movers EXCEPT ![t].pc = AfterCas(movers[t]), ![t].won = TRUE]
    /\ UNCHANGED <<archive_ids, archives, assigned, aret>>
    /\ UNCHANGED <<reader, walker, shards, race, cache, par>>
    /\ UNCHANGED <<cellVars, gcVars, bcVars>>

\* `if !handle.meta().set_is_moving_to_archive() { return Ok(()) }`: the
\* flag is set atomically and the call goes on only if it was clear.
MoverCas(t) ==
    /\ movers[t].pc = "cas"
    /\ IF handles[movers[t].h].is_moving_to_archive
       THEN /\ movers' = [movers EXCEPT ![t].pc = "done"]
            /\ UNCHANGED handles
       ELSE /\ handles' = [handles EXCEPT
                             ![movers[t].h].is_moving_to_archive = TRUE]
            /\ movers' = [movers EXCEPT ![t].pc = AfterCas(movers[t]),
                                        ![t].won = TRUE]
    /\ UNCHANGED <<archive_ids, archives, assigned, aret>>
    /\ UNCHANGED <<reader, walker, shards, race, cache, par>>
    /\ UNCHANGED <<cellVars, gcVars, bcVars>>

\* `let lock = handle.block_data_lock().write().await` (or proof_data_lock):
\* the call goes on once no read guard is out, and make_archive_segment reads
\* the package entry; an error returns with `?`, dropping the guards held.
MoverSegment(t, segOk) ==
    /\ movers[t].pc \in {"body", "proof"}
    /\ <<movers[t].h, movers[t].pc>> \notin reader
    /\ movers' = IF segOk
                 THEN [movers EXCEPT ![t].pc = AfterSegment(movers[t])]
                 ELSE [movers EXCEPT ![t].pc = "done", ![t].ok = FALSE]
    /\ UNCHANGED <<reader, walker, shards, race, cache, par>>
    /\ UNCHANGED <<cellVars, archVars, gcVars, bcVars>>

\* The ghost `assigned` with the id compute_archive_id returned for h.
Assign(h, id) ==
    [k \in DOMAIN assigned \cup {h} |-> IF k = h THEN id ELSE assigned[k]]

\* compute_archive_id: a key block inserts mc_seq_no under archive_ids.write()
\* and returns; otherwise prev_id is read under archive_ids.read() and the
\* lock is released before the id is chosen.
MoverCompute(t) ==
    /\ movers[t].pc = "compute"
    /\ ~IdsLocked
    /\ LET h == movers[t].h
           c == compute_archive_id(archive_ids, handles[h])
       IN  IF handles[h].is_key_block \/ c.ids = archive_ids
           THEN /\ archive_ids' = c.ids
                /\ assigned' = Assign(h, c.id)
                /\ movers' = [movers EXCEPT ![t].pc = "flag", ![t].id = c.id]
           ELSE /\ movers' = [movers EXCEPT ![t].pc = "register",
                                            ![t].id = c.id]
                /\ UNCHANGED <<archive_ids, assigned>>
    /\ UNCHANGED <<archives, handles, aret>>
    /\ UNCHANGED <<reader, walker, shards, race, cache, par>>
    /\ UNCHANGED <<cellVars, gcVars, bcVars>>

\* compute_archive_id, the package split: `self.archive_ids.write()
\* .insert(mc_seq_no)`, a second acquisition of the lock.
MoverRegister(t) ==
    /\ movers[t].pc = "register"
    /\ ~IdsLocked
    /\ archive_ids' = archive_ids \cup {movers[t].id}
    /\ assigned' = Assign(movers[t].h, movers[t].id)
    /\ movers' = [movers EXCEPT ![t].pc = "flag"]
    /\ UNCHANGED <<archives, handles, aret>>
    /\ UNCHANGED <<reader, walker, shards, race, cache, par>>
    /\ UNCHANGED <<cellVars, gcVars, bcVars>>

\* The batch is built: the merges, and `if handle.meta().set_is_archived()
\* { batch.put_cf(block_handles, root_hash, meta) }`. The flag is set in
\* memory here, before the batch is written.
MoverSetArchived(t) ==
    /\ movers[t].pc = "flag"
    /\ handles' = [handles EXCEPT ![movers[t].h].is_archived = TRUE]
    /\ movers' = [movers EXCEPT ![t].pc = "write",
                                ![t].put = ~handles[movers[t].h].is_archived]
    /\ UNCHANGED <<archive_ids, archives, assigned, aret>>
    /\ UNCHANGED <<reader, walker, shards, race, cache, par>>
    /\ UNCHANGED <<cellVars, gcVars, bcVars>>

\* `self.db.write(batch)?`: the segments are merged into the archive and the
\* handle's row is put into block_handles, or nothing is written.
MoverWrite(t, writeOk) ==
    /\ movers[t].pc = "write"
    /\ archives' = IF writeOk
                   THEN MergeArchive(archives, movers[t].id,
                                     CallSegments(movers[t]))
                   ELSE archives
    /\ block_handles' = IF writeOk /\ movers[t].put
                        THEN block_handles \cup {movers[t].h}
                        ELSE block_handles
    /\ movers' = [movers EXCEPT ![t].pc = "done", ![t].ok = writeOk,
                                ![t].merged = writeOk,
                                ![t].id = 0, ![t].put = FALSE]
    /\ UNCHANGED <<archive_ids, handles, assigned, aret>>
    /\ UNCHANGED <<package_entries, key_blocks, gc>>
    /\ UNCHANGED <<reader, walker, shards, race, cache, par>>
    /\ UNCHANGED <<cellVars, bcVars>>

\* get_data / get_data_ref on handle h: `block_data_lock().read().await` or
\* `proof_data_lock().read().await`. A read guard is granted while no write
\* guard is out and no writer is queued.
ReaderAcquire(h, k) ==
    /\ <<h, k>> \notin reader
    /\ ~WriteGuard(h, k)
    /\ reader' = reader \cup {<<h, k>>}
    /\ UNCHANGED <<walker, shards, race, movers, cache, par>>
    /\ UNCHANGED <<cellVars, archVars, gcVars, bcVars>>

\* The read guard is dropped: get_data returns, or the caller of get_data_ref
\* drops the BlockContentsLock.
ReaderDrop(h, k) ==
    /\ <<h, k>> \in reader
    /\ reader' = reader \ {<<h, k>>}
    /\ UNCHANGED <<walker, shards, race, movers, cache, par>>
    /\ UNCHANGED <<cellVars, archVars, gcVars, bcVars>>

\* The steps every call takes once it is made.
MoverSteps(segOks, writeOks) ==
    \/ \E t \in DOMAIN movers : MoverCas(t)
    \/ \E t \in DOMAIN movers : \E segOk \in segOks : MoverSegment(t, segOk)
    \/ \E t \in DOMAIN movers : MoverCompute(t)
    \/ \E t \in DOMAIN movers : MoverRegister(t)
    \/ \E t \in DOMAIN movers : MoverSetArchived(t)
    \/ \E t \in DOMAIN movers : \E writeOk \in writeOks : MoverWrite(t, writeOk)

\* The state of an ArchiveManager on an empty database, with `threads` as
\* callers and no read guard out.
InitManager(threads) ==
    /\ archive_ids = {}
    /\ archives = <<>>
    /\ assigned = <<>>
    /\ aret = [op |-> "none"]
    /\ movers = [t \in threads |-> IdleMover]
    /\ reader = {}
    /\ walker = <<>>
    /\ shards = <<>>
    /\ race = <<>>
    /\ cache = <<>>
    /\ par = <<>>
    /\ IdleCells
    /\ IdleGc
    /\ IdleBroadcast

\* --- blocks archived in any order

\* The blocks of the general runs: masterchain blocks around the first
\* package boundaries of a slice, and one shard block (proof link).
BlockSeqNos == <<20000, 20050, 20100, 20130, 20260>>

\* The callers of the general runs.
ArchiveThreads == {"t1", "t2"}

InitArchive ==
    /\ InitManager(ArchiveThreads)
    /\ \E key \in BOOLEAN :
         handles = [i \in 1..Len(BlockSeqNos) |->
                       Handle(BlockSeqNos[i], key /\ i = 2, i = 4)]

\* A thread calls move_into_archive on any handle.
ArchiveAny ==
    \E t \in DOMAIN movers : \E h \in DOMAIN handles : MoverCall(t, h, FALSE)

NextArchive ==
    \/ ArchiveAny
    \/ MoverSteps(BOOLEAN, BOOLEAN)

SpecArchive == InitArchive /\ [][NextArchive]_vars

\* --- scenarios S3 / S4: a contiguous stream archived in order

\* S3: 250 contiguous masterchain blocks starting at mc_seq_no = 20000.
StreamBlocks == 20000 .. 20249

\* S4: the block that is a key block in the S4 variant of the stream.
StreamKeyBlock == 20000 + 50

InitStream ==
    /\ InitManager({"t1"})
    /\ \E key \in BOOLEAN :
         handles = [s \in StreamBlocks |->
                       Handle(s, key /\ s = StreamKeyBlock, FALSE)]

\* The scenario's caller: move_into_archive on the next block of the stream,
\* once the call on the block before it has returned.
ArchiveInOrder ==
    \E t \in DOMAIN movers : \E h \in DOMAIN handles :
        /\ ~handles[h].is_moving_to_archive
        /\ \A g \in DOMAIN handles : g < h => handles[g].is_archived
        /\ MoverCall(t, h, FALSE)

\* In the scenario every package entry is there and every write succeeds.
NextStream ==
    \/ ArchiveInOrder
    \/ MoverSteps({TRUE}, {TRUE})

SpecArchiveStream == InitStream /\ [][NextStream]_vars

\* ------------------------------------------------ claims on the archive ids

\* C5 (as claimed): archive id coverage. For every handle whose is_archived
\* flag is set, get_archive_id(mc_seq_no) is Some(id) with
\* id <= mc_seq_no < id + ARCHIVE_PACKAGE_SIZE.
C5_ArchiveIdCoverage ==
    \A h \in DOMAIN handles :
        handles[h].is_archived =>
            LET mc == handles[h].mc_seq_no
                r  == get_archive_id(archive_ids, mc)
            IN  /\ r.some
                /\ r.id <= mc
                /\ mc < r.id + ARCHIVE_PACKAGE_SIZE

\* Every block of the stream has been archived and every call has returned.
StreamDone ==
    /\ \A h \in DOMAIN handles : handles[h].is_archived
    /\ \A t \in DOMAIN movers : movers[t].pc \in {"idle", "done"}

\* The stream holds a key block (scenario S4) or none (scenario S3).
StreamHasKeyBlock == \E h \in DOMAIN handles : handles[h].is_key_block

\* The blocks whose segments were merged into archive `id`.
BlocksIn(id) ==
    IF id \in DOMAIN archives
    THEN {archives[id][i].block : i \in 1..Len(archives[id])}
    ELSE {}

\* C6 (as claimed): S3. After archiving 20000..20249 (no key block) in order
\* the registered ids are exactly {20000, 20100, 20200}, and
\* get_archive_id(20150) = 20100, get_archive_id(20299) = 20200,
\* get_archive_id(20300) = None.
C6_S3_RegisteredIds ==
    (StreamDone /\ ~StreamHasKeyBlock) =>
        /\ archive_ids = {20000, 20100, 20200}
        /\ get_archive_id(archive_ids, 20150) = Some(20100)
        /\ get_archive_id(archive_ids, 20299) = Some(20200)
        /\ get_archive_id(archive_ids, 20300) = None

\* C7 (as claimed): S4. With a key block at 20050 the registered ids are
\* {20000, 20050, 20100, 20200} and exactly the blocks [20050, 20100) are
\* written to archive 20050.
C7_S4_KeyBlockSplitsPackage ==
    (StreamDone /\ StreamHasKeyBlock) =>
        /\ archive_ids = {20000, 20050, 20100, 20200}
        /\ BlocksIn(20050) = 20050 .. 20099

\* C7 (amended): S4. With a key block at 20050 the ids registered from 20050
\* upwards are exactly {20050, 20150}: the key block opens archive 20050 and
\* the next package boundary moves to 20150, so exactly the blocks
\* [20050, 20150) are written to archive 20050 (and 20100, 20200 are not
\* registered).
C7_S4_KeyBlockShiftsBoundary ==
    (StreamDone /\ StreamHasKeyBlock) =>
        /\ {id \in archive_ids : id >= 20050} = {20050, 20150}
        /\ BlocksIn(20050) = 20050 .. 20149
        /\ \A h \in 20050 .. 20149 : assigned[h] = 20050

C7_Witness ==
    /\ StreamDone
    /\ StreamHasKeyBlock
    /\ handles[20050].is_key_block
    /\ 20050 \in archive_ids

(***************************************************************************)
(*                       ARCHIVE MANAGER: BLOCK GC                         *)
(***************************************************************************)

\* Bound: max_blocks_per_batch is None or Some(n), n in 0 .. MaxPerBatch.
MaxPerBatch == 2

\* A package entry key: prefix (shard, seq_no), root hash, kind tag.
EntryKey(shard, seq_no, root_hash, kind) ==
    [shard |-> shard, seq_no |-> seq_no, root_hash |-> root_hash, kind |-> kind]

\* The package entry keys of the model in ascending key order (workchain 0
\* sorts before the masterchain's workchain -1 = 0xFFFFFFFF).
GcKeys ==
    << EntryKey("A", 0, "A0", "Block"),
       EntryKey("A", 500, "A500", "Block"),
       EntryKey("A", 999, "A999", "Block"),
       EntryKey("A", 999, "A999", "ProofLink"),
       EntryKey("A", 1000, "A1000", "Block"),
       EntryKey("mc", 0, "M0", "Block"),
       EntryKey("mc", 500, "M500", "Block"),
       EntryKey("mc", 500, "M500", "Proof"),
       EntryKey("mc", 501, "M501", "Block") >>

AllKeys == {GcKeys[i] : i \in 1..Len(GcKeys)}

\* The corpus of scenario S6: (A,999), (A,1000), (mc,500), (mc,501).
S6Corpus ==
    {k \in AllKeys : \/ k.shard = "A" /\ k.seq_no \in {999, 1000}
                     \/ k.shard = "mc" /\ k.seq_no \in {500, 501}}

\* key.len(): prefix (16) ++ root hash (32) ++ kind tag (1).
KeyLen(key) == 16 + 32 + 1

\* ShardIdent::is_masterchain
is_masterchain(shard) == shard = "mc"

\* TopBlocks::contains_shard_seq_no: the (shard, seq_no) pairs of the live
\* frontier, given as a set of pairs.
contains_shard_seq_no(top_blocks, shard, seq_no) ==
    <<shard, seq_no>> \in top_blocks

MutRetainsNoZero(key, top_blocks, kb) ==
    \/ contains_shard_seq_no(top_blocks, key.shard, key.seq_no)
    \/ (is_masterchain(key.shard) /\ key.seq_no \in kb)

MutRetainsAnyKeySeqNo(key, top_blocks, kb) ==
    \/ contains_shard_seq_no(top_blocks, key.shard, key.seq_no)
    \/ key.seq_no = 0
    \/ key.seq_no \in kb

\* gc: the two `continue`s of the loop. An entry is skipped when it is in
\* top_blocks, or its seq_no is 0, or it is a masterchain entry whose seq_no
\* has a row in the key_blocks column.
gc_retains(key, top_blocks, kb) ==
    \/ contains_shard_seq_no(top_blocks, key.shard, key.seq_no)
    \/ key.seq_no = 0
    \/ (is_masterchain(key.shard) /\ key.seq_no \in kb)

\* matches!(max_blocks_per_batch, Some(max) if batch_len >= max)
batch_is_full(max_blocks_per_batch, batch_len) ==
    max_blocks_per_batch.some /\ batch_len >= max_blocks_per_batch.id

\* An empty rocksdb::WriteBatch of gc: deletes of entries and of handles.
EmptyGcBatch == [entries |-> {}, handles |-> {}]

\* The state of the store before gc is called.
InitGc ==
    /\ \E corpus \in {AllKeys, S6Corpus} :
         /\ package_entries = corpus
         /\ block_handles = {k.root_hash : k \in corpus}
    /\ key_blocks \in SUBSET {500, 501}
    /\ gc = [pc |-> "idle"]
    /\ IdleCells
    /\ IdleArchive
    /\ IdleBroadcast
    /\ IdleExt

\* gc(max_blocks_per_batch, top_blocks) is called: the batch is created and
\* the iterator is opened on the package entries.
GcStart(max_blocks_per_batch, top_blocks) ==
    /\ gc.pc \in {"idle", "done"}
    /\ gc' = [pc |-> "iter",
              max_blocks_per_batch |-> max_blocks_per_batch,
              top_blocks |-> top_blocks,
              iter |-> SelectSeq(GcKeys, LAMBDA k : k \in package_entries),
              batch |-> EmptyGcBatch,
              batch_len |-> 0,
              total_package_entries_removed |-> 0,
              mc_package_entries_removed |-> 0,
              total_handles_removed |-> 0,
              corpus |-> package_entries,
              handles0 |-> block_handles,
              added |-> {},
              result |-> ""]
    /\ UNCHANGED <<package_entries, block_handles, key_blocks>>
    /\ UNCHANGED <<cellVars, archVars, bcVars, extVars>>

\* One iteration of `for (key, _) in blocks_iter`, with the intermediate
\* raw_db.write(batch) when the batch is full (writeOk: the write succeeds).
GcVisit(writeOk) ==
    /\ gc.pc = "iter"
    /\ gc.iter # <<>>
    /\ LET key == Head(gc.iter)
           del_handle == KeyLen(key) >= 48
           b == [entries |-> gc.batch.entries \cup {key},
                 handles |-> gc.batch.handles \cup
                             (IF del_handle THEN {key.root_hash} ELSE {})]
           g == [gc EXCEPT
                   !.iter = Tail(@),
                   !.batch = b,
                   !.batch_len = @ + 1,
                   !.total_package_entries_removed = @ + 1,
                   !.mc_package_entries_removed =
                       IF is_masterchain(key.shard) THEN @ + 1 ELSE @,
                   !.total_handles_removed = IF del_handle THEN @ + 1 ELSE @]
       IN  IF gc_retains(key, gc.top_blocks, key_blocks)
           THEN /\ gc' = [gc EXCEPT !.iter = Tail(@)]
                /\ UNCHANGED <<package_entries, block_handles>>
           ELSE IF ~batch_is_full(gc.max_blocks_per_batch, g.batch_len)
           THEN /\ gc' = g
                /\ UNCHANGED <<package_entries, block_handles>>
           ELSE IF writeOk
           THEN /\ package_entries' = package_entries \ b.entries
                /\ block_handles' = block_handles \ b.handles
                /\ gc' = [g EXCEPT !.batch = EmptyGcBatch, !.batch_len = 0]
           ELSE /\ gc' = [g EXCEPT !.batch = EmptyGcBatch,
                                   !.pc = "done", !.result = "err"]
                /\ UNCHANGED <<package_entries, block_handles>>
    /\ UNCHANGED key_blocks
    /\ UNCHANGED <<cellVars, archVars, bcVars, extVars>>

\* The end of gc: the final raw_db.write(batch) if batch_len > 0, Ok(stats).
GcFinish(writeOk) ==
    /\ gc.pc = "iter"
    /\ gc.iter = <<>>
    /\ IF gc.batch_len = 0
       THEN /\ gc' = [gc EXCEPT !.pc = "done", !.result = "ok"]
            /\ UNCHANGED <<package_entries, block_handles>>
       ELSE IF writeOk
       THEN /\ package_entries' = package_entries \ gc.batch.entries
            /\ block_handles' = block_handles \ gc.batch.handles
            /\ gc' = [gc EXCEPT !.batch = EmptyGcBatch,
                                !.pc = "done", !.result = "ok"]
       ELSE /\ gc' = [gc EXCEPT !.batch = EmptyGcBatch,
                                !.pc = "done", !.result = "err"]
            /\ UNCHANGED <<package_entries, block_handles>>
    /\ UNCHANGED key_blocks
    /\ UNCHANGED <<cellVars, archVars, bcVars, extVars>>

\* The package entries add_data is called with while gc may be running: an
\* old shard block and the newest masterchain block of the model.
AddKeys ==
    {EntryKey("A", 500, "A500", "Block"), EntryKey("mc", 501, "M501", "Block")}

\* ArchiveManager::add_data(id, data): package_entries.insert(id, data). The
\* ghost gc.added lists the keys inserted since gc was last called.
AddData(key) ==
    /\ package_entries' = package_entries \cup {key}
    /\ gc' = IF gc.pc = "idle" THEN gc ELSE [gc EXCEPT !.added = @ \cup {key}]
    /\ UNCHANGED <<block_handles, key_blocks>>
    /\ UNCHANGED <<cellVars, archVars, bcVars, extVars>>

\* The arguments gc is called with.
MaxPerBatchArgs == {None} \cup {Some(n) : n \in 0..MaxPerBatch}

TopBlocksArgs ==
    { {}, {<<"A", 1000>>}, {<<"mc", 500>>}, {<<"A", 999>>, <<"mc", 501>>} }

NextGc ==
    \/ \E m \in MaxPerBatchArgs : \E t \in TopBlocksArgs : GcStart(m, t)
    \/ \E writeOk \in BOOLEAN : GcVisit(writeOk)
    \/ \E writeOk \in BOOLEAN : GcFinish(writeOk)
    \/ \E key \in AddKeys : AddData(key)

SpecGc == InitGc /\ [][NextGc]_vars

\* ---------------------------------------------------- claims on the block gc

\* The blocks the claims call retained: in top_blocks, or seq_no 0, or a
\* masterchain block whose seq_no is in the key-blocks column.
ClaimRetained(key) ==
    \/ <<key.shard, key.seq_no>> \in gc.top_blocks
    \/ key.seq_no = 0
    \/ (key.shard = "mc" /\ key.seq_no \in key_blocks)

\* C8: GC safety. After every intermediate flush and after gc returns, no
\* package-entry row and no handle row that was there when gc was called has
\* been deleted for a retained block.
C8_GcSafety ==
    gc.pc # "idle" =>
        \A key \in gc.corpus :
            ClaimRetained(key) =>
                /\ key \in package_entries
                /\ key.root_hash \in gc.handles0
                      => key.root_hash \in block_handles

\* gc has returned Ok after deleting something, with a retained block left.
C8_Witness ==
    /\ gc.pc = "done" /\ gc.result = "ok"
    /\ ~(gc.corpus \subseteq package_entries)
    /\ \E key \in gc.corpus : ClaimRetained(key) /\ key.seq_no = 0
    /\ \E key \in gc.corpus : ClaimRetained(key) /\ key.seq_no # 0

\* C9: GC completeness. When gc returns Ok every row that was there when gc
\* was called and is not retained is deleted (it has a row only if add_data
\* inserted it again meanwhile), with its handle row when the key has at
\* least 48 bytes; for the S6 corpus with top_blocks = {(A,1000)}, 500 a key
\* block and 501 not, and no add_data beside gc, the surviving rows are
\* exactly those of (A,1000) and (mc,500).
C9_GcCompleteness ==
    (gc.pc = "done" /\ gc.result = "ok") =>
        /\ \A key \in gc.corpus :
              ~ClaimRetained(key) =>
                  /\ key \in package_entries => key \in gc.added
                  /\ KeyLen(key) >= 48 => key.root_hash \notin block_handles
        /\ (/\ gc.corpus = S6Corpus
            /\ gc.top_blocks = {<<"A", 1000>>}
            /\ key_blocks = {500}
            /\ gc.added = {})
           => /\ {<<k.shard, k.seq_no>> : k \in package_entries}
                    = {<<"A", 1000>>, <<"mc", 500>>}
              /\ block_handles = {"A1000", "M500"}

\* Scenario S6 has run to Ok, in batches of one.
C9_Witness ==
    /\ gc.pc = "done" /\ gc.result = "ok"
    /\ gc.corpus = S6Corpus
    /\ gc.top_blocks = {<<"A", 1000>>}
    /\ key_blocks = {500}
    /\ gc.added = {}
    /\ gc.max_blocks_per_batch = Some(1)
    /\ gc.total_package_entries_removed = 3

(***************************************************************************)
(*                           BLOCK BROADCASTS                              *)
(***************************************************************************)

\* Bound: the weight of one validator is in 1 .. MaxWeight.
MaxWeight == 2

\* The shard-apply lag of process_block_broadcast: a shard block is applied
\* when shards_client_mc_block_id.seq_no + 8 >= master_ref.master.seq_no.
ShardApplyLag == 8

\* Weights are u64. The validator set is the one of a verified key block (or
\* of the zerostate), whose weights sum to at most 2^60, so neither the sum
\* nor `weight * 3` nor `total_weight * 2` can wrap at 2^64: the products are
\* the mathematical ones for every weight within the bound.

\* validators.iter().map(|v| v.weight).sum()
RECURSIVE SumWeights(_, _)
SumWeights(vs, i) ==
    IF i > Len(vs) THEN 0 ELSE vs[i] + SumWeights(vs, i + 1)

total_weight_of(vs) == SumWeights(vs, 1)

\* BlockSignaturesPure::check_signatures: the summed weight of the validators
\* of the subset whose signature is among the broadcast's signatures.
RECURSIVE SignedWeight(_, _, _)
SignedWeight(vs, signatures, i) ==
    IF i > Len(vs) THEN 0
    ELSE (IF i \in signatures THEN vs[i] ELSE 0)
         + SignedWeight(vs, signatures, i + 1)

check_signatures(vs, signatures) == SignedWeight(vs, signatures, 1)

MutValidateAcceptsTwoThirds(broadcast, vs) ==
    LET total_weight == total_weight_of(vs)
        weight       == check_signatures(vs, broadcast.signatures)
    IN  IF ~broadcast.hash_ok THEN "BadValidatorSetHash"
        ELSE IF weight * 3 < total_weight * 2 THEN "TooSmallWeight"
        ELSE "Ok"

\* validate_broadcast: the validator-set hash check, then the weight check
\* `weight * 3 <= total_weight * 2` -> Err.
validate_broadcast(broadcast, vs) ==
    LET total_weight == total_weight_of(vs)
        weight       == check_signatures(vs, broadcast.signatures)
    IN  IF ~broadcast.hash_ok THEN "BadValidatorSetHash"
        ELSE IF weight * 3 <= total_weight * 2 THEN "TooSmallWeight"
        ELSE "Ok"

\* The handle of a block in the handle storage (none: all flags clear).
NoHandle == [exists |-> FALSE, has_data |-> FALSE, has_proof |-> FALSE,
             has_next1 |-> FALSE, is_applied |-> FALSE]

\* The handle of a block that is stored and applied.
AppliedHandle == [exists |-> TRUE, has_data |-> TRUE, has_proof |-> TRUE,
                  has_next1 |-> FALSE, is_applied |-> TRUE]

\* The id of the masterchain block with seq_no n (its master_ref is itself).
McBlock(n) == [shard |-> "mc", seq_no |-> n, master_ref |-> n]

\* The handle storage of a node whose masterchain block 1 is applied and
\* that has no handle for any other block of `blocks`.
FreshStore(blocks) ==
    [b \in blocks \cup {McBlock(1)} |->
        IF b = McBlock(1) THEN AppliedHandle ELSE NoHandle]

\* The blocks that are broadcast: the next masterchain block, the one after
\* it, and a shard block with the seq_no of the masterchain block it refers to.
BroadcastBlocks ==
    { McBlock(2), McBlock(3),
      [shard |-> "A", seq_no |-> 7, master_ref |-> 9] }

\* What in a broadcast's bytes makes a step of process_block_broadcast fail:
\* the proof does not deserialize (200-205), the proof check fails (238-247),
\* the body does not deserialize (249), the body has no master ref (281-285).
BroadcastFails == {"", "proof", "check", "body", "master_ref"}

\* A BlockBroadcast: the block, the key block its proof names, the validators
\* that signed it, and which of the checks on its bytes it fails.
AllBroadcasts ==
    [ id : BroadcastBlocks,
      prev_key_block_seqno : {0, 2},
      signatures : SUBSET (1..3),
      hash_ok : BOOLEAN,
      fails : BroadcastFails ]

\* The broadcasts that arrive: every set of signers on a broadcast that is
\* otherwise sound, and every other defect on a fully signed one.
Broadcasts ==
    {b \in AllBroadcasts :
        (b.fails # "" \/ b.prev_key_block_seqno # 0)
           => (b.hash_ok /\ b.signatures = 1..3)}

\* BlockStorage::store_block_data on the handle storage: it creates the
\* handle if there is none and sets has_data; `updated` is whether this call
\* set the flag.
store_block_data(store, id) ==
    [store |-> [store EXCEPT ![id].exists = TRUE, ![id].has_data = TRUE],
     updated |-> ~store[id].has_data]

\* BlockStorage::store_block_proof: sets has_proof; `updated` as above.
store_block_proof(store, id) ==
    [store |-> [store EXCEPT ![id].has_proof = TRUE],
     updated |-> ~store[id].has_proof]

\* Engine::apply_block_ext on the handle storage: the block is applied and,
\* for a masterchain block, the next1 edge of its predecessor is set.
apply_block_ext(store, id) ==
    LET prev == McBlock(id.seq_no - 1)
    IN  [b \in DOMAIN store |->
           IF b = id THEN [store[b] EXCEPT !.is_applied = TRUE]
           ELSE IF is_masterchain(id.shard) /\ b = prev /\ store[b].exists
           THEN [store[b] EXCEPT !.has_next1 = TRUE]
           ELSE store[b]]

\* The last applied mc block id after the engine has applied block `id`.
last_applied_after(last_applied, id) ==
    IF is_masterchain(id.shard) /\ id.seq_no > last_applied
    THEN id.seq_no ELSE last_applied

MutApplyGateOpen(id, last_applied, shards_client) ==
    IF is_masterchain(id.shard)
    THEN id.seq_no >= last_applied + 1
    ELSE TRUE

\* The apply gates of process_block_broadcast: for a masterchain block
\* `block_id.seq_no == last_applied_mc_block_id.seq_no + 1` (the id loaded at
\* line 209), for a shard block
\* `shards_client_mc_block_id.seq_no + 8 >= master_ref.master.seq_no`.
apply_gate(id, last_applied, shards_client) ==
    IF is_masterchain(id.shard)
    THEN id.seq_no = last_applied + 1
    ELSE shards_client + ShardApplyLag >= id.master_ref

\* A process_block_broadcast call that is not running.
IdleCall == [pc |-> "idle"]

\* A call that has returned. `validated` is whether it reached the weight
\* check, `changed` whether one of its own steps changed a handle.
Returned(call, result) == [call EXCEPT !.pc = "done", !.result = result]

\* Lines 274-293 for a call whose stores reported `updated`: the gate, and
\* for a shard block the master ref and load_shards_client_mc_block_id.
AtGate(call) ==
    LET id == call.broadcast.id
    IN  IF ~is_masterchain(id.shard) /\ call.broadcast.fails = "master_ref"
        THEN Returned(call, "Err")
        ELSE IF apply_gate(id, call.last_applied, shards_client_mc)
        THEN [call EXCEPT !.pc = "apply"]
        ELSE Returned(call, "Stored")

MutCallNoFastReject(c, broadcast) ==
    /\ race.calls[c].pc \in {"idle", "done"}
    /\ LET call == [pc |-> "load", broadcast |-> broadcast,
                    last_applied |-> last_applied_mc, result |-> "None",
                    validated |-> FALSE, changed |-> FALSE]
       IN  race' = [race EXCEPT !.calls[c] =
               IF broadcast.fails = "proof" THEN Returned(call, "Err")
               ELSE IF broadcast.prev_key_block_seqno > last_applied_mc
               THEN Returned(call, "Ignored")
               ELSE call]
    /\ UNCHANGED <<reader, walker, shards, movers, cache, par>>
    /\ UNCHANGED <<cellVars, archVars, gcVars, bcVars>>

\* process_block_broadcast, lines 193-221: the fast reject on a handle with
\* has_data, the proof's deserialization, load_last_applied_mc_block_id and
\* the prev_key_block_seqno gate; the call then awaits the key block proof
\* (or the zerostate).
BroadcastCall(c, broadcast) ==
    /\ race.calls[c].pc \in {"idle", "done"}
    /\ LET handle == block_store[broadcast.id]
           call   == [pc |-> "load", broadcast |-> broadcast,
                      last_applied |-> last_applied_mc, result |-> "None",
                      validated |-> FALSE, changed |-> FALSE]
       IN  race' = [race EXCEPT !.calls[c] =
               IF handle.exists /\ handle.has_data
               THEN Returned(call, "Duplicate")
               ELSE IF broadcast.fails = "proof" THEN Returned(call, "Err")
               ELSE IF broadcast.prev_key_block_seqno > last_applied_mc
               THEN Returned(call, "Ignored")
               ELSE call]
    /\ UNCHANGED <<reader, walker, shards, movers, cache, par>>
    /\ UNCHANGED <<cellVars, archVars, gcVars, bcVars>>

MutValidateSkipsBody(c, loaded) ==
    /\ race.calls[c].pc = "load"
    /\ LET call == race.calls[c]
           v    == validate_broadcast(call.broadcast, validators)
           seen == [call EXCEPT !.validated = call.broadcast.hash_ok]
       IN  race' = [race EXCEPT !.calls[c] =
               IF ~loaded THEN Returned(call, "Err")
               ELSE IF v # "Ok" THEN Returned(seen, v)
               ELSE IF call.broadcast.fails = "check"
               THEN Returned(seen, "Err")
               ELSE [seen EXCEPT !.pc = "store_data"]]
    /\ UNCHANGED <<reader, walker, shards, movers, cache, par>>
    /\ UNCHANGED <<cellVars, archVars, gcVars, bcVars>>

\* Lines 223-252: load_mc_zero_state / load_block_proof returns (or fails),
\* then validate_broadcast, the proof check and the body's deserialization;
\* the call then awaits store_block_data.
BroadcastValidate(c, loaded) ==
    /\ race.calls[c].pc = "load"
    /\ LET call == race.calls[c]
           v    == validate_broadcast(call.broadcast, validators)
           seen == [call EXCEPT !.validated = call.broadcast.hash_ok]
       IN  race' = [race EXCEPT !.calls[c] =
               IF ~loaded THEN Returned(call, "Err")
               ELSE IF v # "Ok" THEN Returned(seen, v)
               ELSE IF call.broadcast.fails \in {"check", "body"}
               THEN Returned(seen, "Err")
               ELSE [seen EXCEPT !.pc = "store_data"]]
    /\ UNCHANGED <<reader, walker, shards, movers, cache, par>>
    /\ UNCHANGED <<cellVars, archVars, gcVars, bcVars>>

MutStoreIgnoresUpdated(c, ok) ==
    /\ race.calls[c].pc = "store_data"
    /\ LET call == race.calls[c]
           r    == store_block_data(block_store, call.broadcast.id)
       IN  IF ~ok
           THEN /\ race' = [race EXCEPT !.calls[c] = Returned(call, "Err")]
                /\ UNCHANGED block_store
           ELSE /\ block_store' = r.store
                /\ race' = [race EXCEPT !.calls[c] =
                              [call EXCEPT !.pc = "data_stored",
                                           !.changed = r.store # block_store]]
    /\ UNCHANGED <<validators, last_applied_mc, shards_client_mc>>
    /\ UNCHANGED <<reader, walker, shards, movers, cache, par>>
    /\ UNCHANGED <<cellVars, archVars, gcVars>>

\* Lines 251-258: store_block_data takes effect (or fails and `?` returns);
\* a result that is not `updated` returns Ok.
BroadcastStoreData(c, ok) ==
    /\ race.calls[c].pc = "store_data"
    /\ LET call == race.calls[c]
           r    == store_block_data(block_store, call.broadcast.id)
       IN  IF ~ok
           THEN /\ race' = [race EXCEPT !.calls[c] = Returned(call, "Err")]
                /\ UNCHANGED block_store
           ELSE /\ block_store' = r.store
                /\ race' = [race EXCEPT !.calls[c] =
                              IF r.updated
                              THEN [call EXCEPT !.pc = "data_stored",
                                                !.changed = TRUE]
                              ELSE Returned(call, "NotUpdated")]
    /\ UNCHANGED <<validators, last_applied_mc, shards_client_mc>>
    /\ UNCHANGED <<reader, walker, shards, movers, cache, par>>
    /\ UNCHANGED <<cellVars, archVars, gcVars>>

\* Line 260: `if !handle.meta().has_proof()`; without a proof the call
\* awaits store_block_proof, with one it goes on to the gate (274-293).
BroadcastAfterData(c) ==
    /\ race.calls[c].pc = "data_stored"
    /\ LET call == race.calls[c]
       IN  race' = [race EXCEPT !.calls[c] =
               IF ~block_store[call.broadcast.id].has_proof
               THEN [call EXCEPT !.pc = "store_proof"]
               ELSE AtGate(call)]
    /\ UNCHANGED <<reader, walker, shards, movers, cache, par>>
    /\ UNCHANGED <<cellVars, archVars, gcVars, bcVars>>

\* Lines 261-271: store_block_proof takes effect (or fails and `?` returns);
\* a result that is not `updated` returns Ok.
BroadcastStoreProof(c, ok) ==
    /\ race.calls[c].pc = "store_proof"
    /\ LET call == race.calls[c]
           r    == store_block_proof(block_store, call.broadcast.id)
       IN  IF ~ok
           THEN /\ race' = [race EXCEPT !.calls[c] = Returned(call, "Err")]
                /\ UNCHANGED block_store
           ELSE /\ block_store' = r.store
                /\ race' = [race EXCEPT !.calls[c] =
                              IF r.updated
                              THEN [call EXCEPT !.pc = "gate"]
                              ELSE Returned(call, "NotUpdated")]
    /\ UNCHANGED <<validators, last_applied_mc, shards_client_mc>>
    /\ UNCHANGED <<reader, walker, shards, movers, cache, par>>
    /\ UNCHANGED <<cellVars, archVars, gcVars>>

\* Lines 274-293 after store_block_proof: the gate; an open gate awaits
\* apply_block_ext, a closed one returns Ok with the block stored.
BroadcastGate(c) ==
    /\ race.calls[c].pc = "gate"
    /\ race' = [race EXCEPT !.calls[c] = AtGate(race.calls[c])]
    /\ UNCHANGED <<reader, walker, shards, movers, cache, par>>
    /\ UNCHANGED <<cellVars, archVars, gcVars, bcVars>>

\* Lines 276-278 / 289-291 and 295: engine.apply_block_ext takes effect (or
\* fails and `?` returns) and the call returns Ok.
BroadcastApply(c, ok) ==
    /\ race.calls[c].pc = "apply"
    /\ LET call == race.calls[c]
           id   == call.broadcast.id
       IN  IF ~ok
           THEN /\ race' = [race EXCEPT !.calls[c] = Returned(call, "Err")]
                /\ UNCHANGED <<block_store, last_applied_mc>>
           ELSE /\ block_store' = apply_block_ext(block_store, id)
                /\ last_applied_mc' = last_applied_after(last_applied_mc, id)
                /\ race' = [race EXCEPT !.calls[c] = Returned(call, "Applied")]
    /\ UNCHANGED <<validators, shards_client_mc>>
    /\ UNCHANGED <<reader, walker, shards, movers, cache, par>>
    /\ UNCHANGED <<cellVars, archVars, gcVars>>

\* The steps of the process_block_broadcast calls in flight.
BroadcastSteps(calls) ==
    \/ \E c \in calls : \E loaded \in BOOLEAN : BroadcastValidate(c, loaded)
    \/ \E c \in calls : \E ok \in BOOLEAN : BroadcastStoreData(c, ok)
    \/ \E c \in calls : BroadcastAfterData(c)
    \/ \E c \in calls : \E ok \in BOOLEAN : BroadcastStoreProof(c, ok)
    \/ \E c \in calls : BroadcastGate(c)
    \/ \E c \in calls : \E ok \in BOOLEAN : BroadcastApply(c, ok)

\* A node at masterchain block 1 that receives broadcasts one at a time.
InitBroadcast ==
    /\ validators \in [1..3 -> 1..MaxWeight]
    /\ block_store = FreshStore(BroadcastBlocks)
    /\ last_applied_mc = 1
    /\ shards_client_mc = 1
    /\ race = [calls |-> [c \in {"p"} |-> IdleCall]]
    /\ reader = <<>>
    /\ walker = <<>>
    /\ shards = <<>>
    /\ movers = <<>>
    /\ cache = <<>>
    /\ par = <<>>
    /\ IdleCells
    /\ IdleArchive
    /\ IdleGc

NextBroadcast ==
    \/ \E broadcast \in Broadcasts : BroadcastCall("p", broadcast)
    \/ BroadcastSteps({"p"})

SpecBroadcast == InitBroadcast /\ [][NextBroadcast]_vars

\* ------------------------------------------------ claims on the quorum rule

\* The weight of the signers and of the whole subset, as plain integers.
RECURSIVE PlainSum(_, _)
PlainSum(S, w) ==
    IF S = {} THEN 0
    ELSE LET x == CHOOSE y \in S : TRUE IN w[x] + PlainSum(S \ {x}, w)

SignersWeight(call) ==
    PlainSum(call.broadcast.signatures \cap (1..3), validators)

TotalWeight == PlainSum(1..3, validators)

\* C10: quorum rule. A broadcast that reaches the weight check passes it iff
\* weight * 3 > total_weight * 2; at weight * 3 = total_weight * 2 (and
\* below) it is rejected and the call has stored nothing.
C10_QuorumRule ==
    \A c \in DOMAIN race.calls :
       LET call == race.calls[c]
       IN  (call.pc # "idle" /\ call.validated) =>
             /\ (call.result # "TooSmallWeight")
                   <=> (SignersWeight(call) * 3 > TotalWeight * 2)
             /\ (SignersWeight(call) * 3 <= TotalWeight * 2)
                   => /\ call.pc = "done"
                      /\ call.result = "TooSmallWeight"
                      /\ ~call.changed
                      /\ ~block_store[call.broadcast.id].has_data

\* A broadcast signed by exactly 2/3 of the weight was rejected, after another
\* block had been stored.
C10_Witness ==
    LET call == race.calls["p"]
    IN  /\ call.pc = "done"
        /\ call.result = "TooSmallWeight"
        /\ SignersWeight(call) * 3 = TotalWeight * 2
        /\ SignersWeight(call) > 0
        /\ \E b \in BroadcastBlocks : block_store[b].has_data
        /\ ~block_store[call.broadcast.id].has_data

\* C15: a duplicate broadcast is a no-op. A call for a block whose handle
\* exists with has_data returns success at once, without validating, and
\* leaves every handle and the engine's ids as they were.
C15_DuplicateBroadcastNoOp ==
    [][ \A c \in DOMAIN race.calls :
          ( /\ race.calls[c].pc \in {"idle", "done"}
            /\ race'.calls[c] # race.calls[c]
            /\ block_store[race'.calls[c].broadcast.id].exists
            /\ block_store[race'.calls[c].broadcast.id].has_data )
          => ( /\ race'.calls[c].pc = "done"
               /\ race'.calls[c].result = "Duplicate"
               /\ ~race'.calls[c].validated
               /\ ~race'.calls[c].changed
               /\ block_store' = block_store
               /\ last_applied_mc' = last_applied_mc
               /\ shards_client_mc' = shards_client_mc ) ]_vars

\* A broadcast of an applied block, fully signed and valid, came back as a
\* duplicate.
C15_Witness ==
    LET call == race.calls["p"]
    IN  /\ call.pc = "done"
        /\ call.result = "Duplicate"
        /\ call.broadcast.signatures = 1..3
        /\ call.broadcast.hash_ok
        /\ call.broadcast.fails = ""
        /\ block_store[call.broadcast.id].has_data
        /\ block_store[call.broadcast.id].is_applied

(***************************************************************************)
(*                    ARCHIVE MANAGER: ARCHIVE SLICES                      *)
(***************************************************************************)

\* Bound: the length of an archive value (in bytes) is in 0 .. MaxArchiveLen.
MaxArchiveLen == 3

\* The bytes an archive value is made of.
Bytes == {"a", "b"}

\* The archive ids that are read: the first has a row, the second has none.
SliceIds == <<ARCHIVE_SLICE_SIZE, ARCHIVE_SLICE_SIZE + ARCHIVE_PACKAGE_SIZE>>

\* The offsets and limits a call is made with.
SliceArgs == 0 .. (MaxArchiveLen + 1)

\* All byte strings of length at most n.
BoundedSeq(n) == UNION {[1..k -> Bytes] : k \in 0..n}

\* std::cmp::min
cmp_min(a, b) == IF a <= b THEN a ELSE b

\* usize::saturating_add. offset and limit stay far below usize::MAX here,
\* where the saturated sum is the sum.
usize_saturating_add(a, b) == a + b

\* slice[offset..end].to_vec() (0-based, end exclusive).
SliceRange(slice, offset, end) == SubSeq(slice, offset + 1, end)

MutSliceEndIgnoresOffset(col, id, offset, limit) ==
    IF id \notin DOMAIN col
    THEN [ok |-> TRUE, some |-> FALSE, data |-> <<>>, err |-> ""]
    ELSE IF offset < Len(col[id])
    THEN [ok |-> TRUE, some |-> TRUE, err |-> "",
          data |-> SliceRange(col[id], offset, cmp_min(limit, Len(col[id])))]
    ELSE [ok |-> FALSE, some |-> FALSE, data |-> <<>>, err |-> "InvalidOffset"]

\* ArchiveManager::get_archive_slice
get_archive_slice(col, id, offset, limit) ==
    IF id \notin DOMAIN col
    THEN [ok |-> TRUE, some |-> FALSE, data |-> <<>>, err |-> ""]
    ELSE IF offset < Len(col[id])
    THEN [ok |-> TRUE, some |-> TRUE, err |-> "",
          data |-> SliceRange(col[id], offset,
                              cmp_min(usize_saturating_add(offset, limit),
                                      Len(col[id])))]
    ELSE [ok |-> FALSE, some |-> FALSE, data |-> <<>>, err |-> "InvalidOffset"]

InitSlices ==
    /\ \E value \in BoundedSeq(MaxArchiveLen) :
         archives = [id \in {SliceIds[1]} |-> value]
    /\ archive_ids = {SliceIds[1]}
    /\ handles = <<>>
    /\ assigned = <<>>
    /\ aret = <<>>
    /\ reader = [pc |-> "idle"]
    /\ walker = <<>>
    /\ shards = <<>>
    /\ race = <<>>
    /\ movers = <<>>
    /\ cache = <<>>
    /\ par = <<>>
    /\ IdleCells
    /\ IdleGc
    /\ IdleBroadcast

\* One call get_archive_slice(id, offset, limit).
GetArchiveSlice(id, offset, limit) ==
    /\ reader.pc \in {"idle", "call", "done"}
    /\ reader' = [pc |-> "call", id |-> id, offset |-> offset, limit |-> limit,
                  ret |-> get_archive_slice(archives, id, offset, limit)]
    /\ UNCHANGED <<walker, shards, race, movers, cache, par>>
    /\ UNCHANGED <<cellVars, archVars, gcVars, bcVars>>

\* A client starts reading archive `id` in windows of W bytes.
ReadStart(id, W) ==
    /\ reader.pc \in {"idle", "call", "done"}
    /\ W > 0
    /\ reader' = [pc |-> "reading", id |-> id, W |-> W, k |-> 0, acc |-> <<>>]
    /\ UNCHANGED <<walker, shards, race, movers, cache, par>>
    /\ UNCHANGED <<cellVars, archVars, gcVars, bcVars>>

\* The client's next call get_archive_slice(id, k*W, W): it appends the data
\* it gets and stops at the first call that returns no data.
ReadNext ==
    /\ reader.pc = "reading"
    /\ LET r == get_archive_slice(archives, reader.id, reader.k * reader.W,
                                  reader.W)
       IN  reader' =
             IF r.ok /\ r.some
             THEN [reader EXCEPT !.k = @ + 1, !.acc = @ \o r.data]
             ELSE [pc |-> "done", id |-> reader.id, W |-> reader.W,
                   k |-> reader.k, acc |-> reader.acc, ret |-> r]
    /\ UNCHANGED <<walker, shards, race, movers, cache, par>>
    /\ UNCHANGED <<cellVars, archVars, gcVars, bcVars>>

NextSlices ==
    \/ \E i \in DOMAIN SliceIds : \E offset \in SliceArgs : \E limit \in SliceArgs :
         GetArchiveSlice(SliceIds[i], offset, limit)
    \/ \E i \in DOMAIN SliceIds : \E W \in SliceArgs : ReadStart(SliceIds[i], W)
    \/ ReadNext

SpecSlices == InitSlices /\ [][NextSlices]_vars

\* ------------------------------------------- claims on the archive slices

\* value[offset .. min(offset + limit, len)], written out byte by byte.
ExpectedSlice(value, offset, limit) ==
    LET end == IF offset + limit <= Len(value) THEN offset + limit
               ELSE Len(value)
    IN  [i \in 1..(end - offset) |-> value[offset + i]]

\* C11: archive slice read. get_archive_slice(id, offset, limit) returns
\* value[offset .. min(offset+limit, len)] when offset < len, fails with
\* InvalidOffset when the archive exists and offset >= len, and returns None
\* when the id has no row; reading windows of any W > 0 at offsets 0, W,
\* 2W, ... up to the first InvalidOffset yields the full archive value.
C11_ArchiveSliceRead ==
    /\ reader.pc = "call" =>
         IF reader.id \notin DOMAIN archives
         THEN reader.ret.ok /\ ~reader.ret.some
         ELSE IF reader.offset < Len(archives[reader.id])
         THEN /\ reader.ret.ok /\ reader.ret.some
              /\ reader.ret.data = ExpectedSlice(archives[reader.id],
                                                 reader.offset, reader.limit)
         ELSE ~reader.ret.ok /\ reader.ret.err = "InvalidOffset"
    /\ (reader.pc = "done" /\ reader.id \in DOMAIN archives) =>
         /\ reader.ret.err = "InvalidOffset"
         /\ reader.acc = archives[reader.id]

\* A value of MaxArchiveLen bytes has been read back in more than one window,
\* the last one shorter than W.
C11_Witness ==
    /\ reader.pc = "done"
    /\ reader.id \in DOMAIN archives
    /\ Len(archives[reader.id]) = MaxArchiveLen
    /\ reader.k > 1
    /\ reader.k * reader.W > MaxArchiveLen
    /\ reader.acc = archives[reader.id]

(***************************************************************************)
(*                          MASTERCHAIN WALKER                             *)
(***************************************************************************)

\* Bound: the walker is followed up to the masterchain block MaxChain.
MaxChain == 4

\* The validations of the download path of load_next_masterchain_block, in
\* the order the code runs them.
WalkValidations ==
    {"seq_no", "is_link", "pre_check_block_proof", "check_with_master_state"}

\* What download_next_masterchain_block hands back: the block a peer sent
\* (its seq_no relative to the one asked for) and whether its proof is a link.
Downloads(prev) ==
    [seq_no : {prev, prev + 1, prev + 2}, is_link : BOOLEAN]

\* Where the download step can fail for a reason outside this code.
DownloadFailures ==
    {"", "download_next_masterchain_block", "pre_check_block_proof"}

\* Where the step after wait_state can fail.
CheckFailures == {"", "wait_state", "check_with_master_state"}

\* Engine::download_and_apply_block on the handle storage: the block is
\* stored with its proof and applied.
download_and_apply_block(store, id) ==
    apply_block_ext(
        [store EXCEPT ![id].exists = TRUE, ![id].has_data = TRUE,
                      ![id].has_proof = TRUE], id)

\* The walker at the loop head of walk_masterchain_blocks, before its first
\* iteration, at masterchain block 1 and followed up to block `limit`.
WalkerAt(limit) ==
    [working |-> TRUE, running |-> TRUE, limit |-> limit,
     start |-> 1, block_id |-> 1, pc |-> "head", id |-> 0,
     applied |-> <<>>,
     last |-> [result |-> "None", path |-> "none", from |-> 1,
               seq_no |-> 0, passes |-> WalkValidations, changed |-> FALSE]]

\* The masterchain blocks a walker followed up to `limit` can touch.
WalkBlocks(limit) == {McBlock(n) : n \in 1..(limit + 2)}

\* The iteration ends with Err: walk_masterchain_blocks logs it and
\* `continue`s with the same block_id.
WalkErr(w) == [w EXCEPT !.pc = "head", !.last.result = "Err"]

\* The iteration ends with Ok(id): `block_id = id`.
WalkOk(w) ==
    [w EXCEPT !.pc = "head", !.block_id = w.id,
              !.applied = Append(@, w.id), !.last.result = "Ok"]

\* Line 127, `if !handle.meta().has_proof()`, and what the walker awaits next.
AfterData(w) ==
    [w EXCEPT !.pc = IF block_store[McBlock(w.id)].has_proof
                     THEN "apply" ELSE "store_proof"]

\* walk_masterchain_blocks line 21 with the engine working, and
\* load_next_masterchain_block lines 78-92: the handle of prev_block_id;
\* with a next1 edge the walker awaits download_and_apply_block of it,
\* without one download_next_masterchain_block; no handle is an error.
WalkHead ==
    /\ walker.running
    /\ walker.pc = "head"
    /\ walker.working
    /\ walker.block_id < walker.limit
    /\ LET handle == block_store[McBlock(walker.block_id)]
           fresh  == [result |-> "Running", path |-> "none",
                      from |-> walker.block_id, seq_no |-> 0,
                      passes |-> WalkValidations, changed |-> FALSE]
       IN  walker' =
             IF ~handle.exists
             THEN WalkErr([walker EXCEPT !.last = fresh])
             ELSE IF handle.has_next1
             THEN [walker EXCEPT !.pc = "next1", !.id = walker.block_id + 1,
                                 !.last = [fresh EXCEPT !.path = "next1"]]
             ELSE [walker EXCEPT !.pc = "download", !.id = 0,
                                 !.last = [fresh EXCEPT !.path = "download"]]
    /\ UNCHANGED <<reader, shards, race, movers, cache, par>>
    /\ UNCHANGED <<cellVars, archVars, gcVars, bcVars>>

\* The loop head finds engine.is_working() false: the walker returns Ok(()).
WalkExit ==
    /\ walker.running
    /\ walker.pc = "head"
    /\ ~walker.working
    /\ walker' = [walker EXCEPT !.running = FALSE]
    /\ UNCHANGED <<reader, shards, race, movers, cache, par>>
    /\ UNCHANGED <<cellVars, archVars, gcVars, bcVars>>

\* Lines 82-85: download_and_apply_block(next1_id) takes effect and the call
\* returns Ok(next1_id), or it fails and `?` returns the error.
WalkNext1(ok) ==
    /\ walker.pc = "next1"
    /\ IF ok
       THEN /\ block_store' =
                 download_and_apply_block(block_store, McBlock(walker.id))
            /\ last_applied_mc' =
                 last_applied_after(last_applied_mc, McBlock(walker.id))
            /\ walker' = WalkOk([walker EXCEPT !.last.seq_no = walker.id])
       ELSE /\ walker' = WalkErr(walker)
            /\ UNCHANGED <<block_store, last_applied_mc>>
    /\ UNCHANGED <<validators, shards_client_mc>>
    /\ UNCHANGED <<reader, shards, race, movers, cache, par>>
    /\ UNCHANGED <<cellVars, archVars, gcVars>>

MutDownloadAcceptsAnySeqNo(dl, fail) ==
    /\ walker.pc = "download"
    /\ LET failed == {v \in WalkValidations :
                        \/ v = "seq_no" /\ dl.seq_no # walker.block_id + 1
                        \/ v = "is_link" /\ dl.is_link
                        \/ v = "pre_check_block_proof" /\ fail = v}
           w      == [walker EXCEPT !.id = dl.seq_no,
                                    !.last.seq_no = dl.seq_no,
                                    !.last.passes = WalkValidations \ failed]
       IN  walker' =
             IF fail = "download_next_masterchain_block"
             THEN WalkErr(walker)
             ELSE IF dl.is_link THEN WalkErr(w)
             ELSE IF fail = "pre_check_block_proof" THEN WalkErr(w)
             ELSE [w EXCEPT !.pc = "wait_state"]
    /\ UNCHANGED <<reader, shards, race, movers, cache, par>>
    /\ UNCHANGED <<cellVars, archVars, gcVars, bcVars>>

\* Lines 91-106: download_next_masterchain_block returns a block (or fails),
\* then the seq_no successor check, the is_link check and
\* pre_check_block_proof; the walker then awaits wait_state.
WalkDownload(dl, fail) ==
    /\ walker.pc = "download"
    /\ LET failed == {v \in WalkValidations :
                        \/ v = "seq_no" /\ dl.seq_no # walker.block_id + 1
                        \/ v = "is_link" /\ dl.is_link
                        \/ v = "pre_check_block_proof" /\ fail = v}
           w      == [walker EXCEPT !.id = dl.seq_no,
                                    !.last.seq_no = dl.seq_no,
                                    !.last.passes = WalkValidations \ failed]
       IN  walker' =
             IF fail = "download_next_masterchain_block"
             THEN WalkErr(walker)
             ELSE IF dl.seq_no # walker.block_id + 1 THEN WalkErr(w)
             ELSE IF dl.is_link THEN WalkErr(w)
             ELSE IF fail = "pre_check_block_proof" THEN WalkErr(w)
             ELSE [w EXCEPT !.pc = "wait_state"]
    /\ UNCHANGED <<reader, shards, race, movers, cache, par>>
    /\ UNCHANGED <<cellVars, archVars, gcVars, bcVars>>

\* Lines 106-120 and 127: wait_state returns (or fails), then
\* check_with_master_state and load_handle(block_id): a handle with has_data
\* is used as it is, otherwise the walker awaits store_block_data.
WalkChecked(fail) ==
    /\ walker.pc = "wait_state"
    /\ LET handle == block_store[McBlock(walker.id)]
       IN  walker' =
             IF fail = "wait_state" THEN WalkErr(walker)
             ELSE IF fail = "check_with_master_state"
             THEN WalkErr([walker EXCEPT !.last.passes = @ \ {fail}])
             ELSE IF handle.exists /\ handle.has_data THEN AfterData(walker)
             ELSE [walker EXCEPT !.pc = "store_data"]
    /\ UNCHANGED <<reader, shards, race, movers, cache, par>>
    /\ UNCHANGED <<cellVars, archVars, gcVars, bcVars>>

\* Lines 120-123: store_block_data takes effect, or fails and `?` returns.
WalkStoreData(ok) ==
    /\ walker.pc = "store_data"
    /\ LET r == store_block_data(block_store, McBlock(walker.id))
       IN  IF ok
           THEN /\ block_store' = r.store
                /\ walker' = [walker EXCEPT
                                !.pc = "data_stored",
                                !.last.changed = @ \/ r.store # block_store]
           ELSE /\ walker' = WalkErr(walker)
                /\ UNCHANGED block_store
    /\ UNCHANGED <<validators, last_applied_mc, shards_client_mc>>
    /\ UNCHANGED <<reader, shards, race, movers, cache, par>>
    /\ UNCHANGED <<cellVars, archVars, gcVars>>

\* Line 127 on the handle store_block_data returned.
WalkAfterData ==
    /\ walker.pc = "data_stored"
    /\ walker' = AfterData(walker)
    /\ UNCHANGED <<reader, shards, race, movers, cache, par>>
    /\ UNCHANGED <<cellVars, archVars, gcVars, bcVars>>

\* Lines 128-131: store_block_proof takes effect, or fails and `?` returns;
\* the walker then awaits apply_block_ext.
WalkStoreProof(ok) ==
    /\ walker.pc = "store_proof"
    /\ LET r == store_block_proof(block_store, McBlock(walker.id))
       IN  IF ok
           THEN /\ block_store' = r.store
                /\ walker' = [walker EXCEPT
                                !.pc = "apply",
                                !.last.changed = @ \/ r.store # block_store]
           ELSE /\ walker' = WalkErr(walker)
                /\ UNCHANGED block_store
    /\ UNCHANGED <<validators, last_applied_mc, shards_client_mc>>
    /\ UNCHANGED <<reader, shards, race, movers, cache, par>>
    /\ UNCHANGED <<cellVars, archVars, gcVars>>

\* Lines 134-138: apply_block_ext takes effect and the call returns
\* Ok(block_id), or it fails and `?` returns the error.
WalkApply(ok) ==
    /\ walker.pc = "apply"
    /\ LET id == McBlock(walker.id)
       IN  IF ok
           THEN /\ block_store' = apply_block_ext(block_store, id)
                /\ last_applied_mc' = last_applied_after(last_applied_mc, id)
                /\ walker' = WalkOk(
                     [walker EXCEPT !.last.changed =
                        @ \/ apply_block_ext(block_store, id) # block_store])
           ELSE /\ walker' = WalkErr(walker)
                /\ UNCHANGED <<block_store, last_applied_mc>>
    /\ UNCHANGED <<validators, shards_client_mc>>
    /\ UNCHANGED <<reader, shards, race, movers, cache, par>>
    /\ UNCHANGED <<cellVars, archVars, gcVars>>

\* The engine is shut down: engine.is_working() is false from now on.
EngineStops ==
    /\ walker.working
    /\ walker' = [walker EXCEPT !.working = FALSE]
    /\ UNCHANGED <<reader, shards, race, movers, cache, par>>
    /\ UNCHANGED <<cellVars, archVars, gcVars, bcVars>>

\* The steps of walk_masterchain_blocks, with the outcomes the engine's and
\* the peers' operations can have: `oks` for the stores and applies,
\* `honest` for whether every download is the block asked for, checked.
WalkSteps(oks, honest) ==
    \/ WalkHead
    \/ \E ok \in oks : WalkNext1(ok)
    \/ \E dl \in Downloads(walker.block_id) : \E fail \in DownloadFailures :
         /\ honest => (dl.seq_no = walker.block_id + 1 /\ ~dl.is_link
                         /\ fail = "")
         /\ WalkDownload(dl, fail)
    \/ \E fail \in CheckFailures : (honest => fail = "") /\ WalkChecked(fail)
    \/ \E ok \in oks : WalkStoreData(ok)
    \/ WalkAfterData
    \/ \E ok \in oks : WalkStoreProof(ok)
    \/ \E ok \in oks : WalkApply(ok)

\* The broadcasts that arrive beside the walker: the masterchain blocks after
\* the first, signed by every validator.
WalkBroadcasts ==
    [ id : {McBlock(n) : n \in 2..MaxChain},
      prev_key_block_seqno : {0},
      signatures : {1..3},
      hash_ok : {TRUE},
      fails : {""} ]

\* The walker starts at masterchain block 1, which is applied; no later block
\* has a handle yet. Broadcasts are processed beside it, one at a time.
InitWalker ==
    /\ walker = WalkerAt(MaxChain)
    /\ validators = [i \in 1..3 |-> 1]
    /\ block_store = FreshStore(WalkBlocks(MaxChain))
    /\ last_applied_mc = 1
    /\ shards_client_mc = 1
    /\ race = [calls |-> [c \in {"p"} |-> IdleCall]]
    /\ reader = <<>>
    /\ shards = <<>>
    /\ movers = <<>>
    /\ cache = <<>>
    /\ par = <<>>
    /\ IdleCells
    /\ IdleArchive
    /\ IdleGc

NextWalker ==
    \/ WalkSteps(BOOLEAN, FALSE)
    \/ WalkExit
    \/ EngineStops
    \/ \E broadcast \in WalkBroadcasts : BroadcastCall("p", broadcast)
    \/ BroadcastSteps({"p"})

SpecWalker == InitWalker /\ [][NextWalker]_vars

\* --------------------------------------------- claims on the masterchain walk

\* C12: masterchain walk order. The walker's position is the last block whose
\* apply succeeded; the blocks it advanced to are start+1, start+2, ... with
\* none skipped and none repeated; a failed call leaves the position where it
\* was; a downloaded block is accepted only if its seq_no is prev.seq_no + 1.
C12_MasterchainWalkOrder ==
    /\ \A i \in 1..Len(walker.applied) : walker.applied[i] = walker.start + i
    /\ walker.block_id = walker.start + Len(walker.applied)
    /\ block_store[McBlock(walker.block_id)].is_applied
    /\ walker.last.result \in {"Running", "Err"}
          => walker.block_id = walker.last.from
    /\ walker.last.result = "Ok"
          => /\ walker.block_id = walker.last.from + 1
             /\ walker.last.seq_no = walker.last.from + 1
    /\ (walker.last.path = "download" /\ walker.pc \notin {"head", "download"})
          => walker.id = walker.block_id + 1

\* The walker has reached MaxChain through a failed iteration, the next1
\* path behind a broadcast that had applied the block, and the download path
\* on a block whose data a broadcast had stored.
C12_Witness ==
    /\ walker.block_id = MaxChain
    /\ Len(walker.applied) = MaxChain - 1
    /\ walker.last.result = "Ok" /\ walker.last.path = "download"
    /\ ~walker.last.changed
    /\ \E n \in 1..MaxChain : block_store[McBlock(n)].has_next1
    /\ race.calls["p"].pc = "done"
    /\ race.calls["p"].result = "Applied"

(***************************************************************************)
(*                       SHARD WALKER AND SHARD BATCHES                    *)
(***************************************************************************)

\* Bound: the shard walker is followed up to the masterchain block MaxMc.
MaxMc == 3

\* The masterchain blocks the shard walker is handed (it starts at block 1).
McBlocks == 2 .. MaxMc

\* masterchain_block.shard_blocks(): the shard blocks an mc block refers to.
ShardBlocksOf(mc) == <<"A", "B">>

\* The tasks load_shard_blocks can spawn: one per shard block of an mc block.
ShardTasks == {<<mc, i>> : mc \in McBlocks, i \in 1..2}

\* A task is alive from tokio::spawn until its retry loop has ended.
TaskAlive(t) == shards.task[t] \in {"retry", "calling"}

InitShards ==
    /\ shards = [working |-> TRUE,
                 running |-> TRUE,
                 pc |-> "head",
                 permits |-> 1,
                 handle |-> 1,
                 batch |-> [mc \in McBlocks |-> [pc |-> "none", idx |-> 1,
                                                 ok |-> FALSE]],
                 task |-> [t \in ShardTasks |-> "none"],
                 shards_client_mc |-> 1]
    /\ reader = <<>>
    /\ walker = <<>>
    /\ race = <<>>
    /\ movers = <<>>
    /\ cache = <<>>
    /\ par = <<>>
    /\ IdleCells
    /\ IdleArchive
    /\ IdleGc
    /\ IdleBroadcast

\* walk_shard_blocks line 51 with the engine working: the walker goes into
\* the loop body and awaits wait_next_applied_mc_block.
ShardWalkHead ==
    /\ shards.running
    /\ shards.pc = "head"
    /\ shards.working
    /\ shards' = [shards EXCEPT !.pc = "wait"]
    /\ UNCHANGED <<reader, walker, race, movers, cache, par>>
    /\ UNCHANGED <<cellVars, archVars, gcVars, bcVars>>

\* Line 51 with engine.is_working() false: the walker returns Ok(()).
ShardWalkExit ==
    /\ shards.running
    /\ shards.pc = "head"
    /\ ~shards.working
    /\ shards' = [shards EXCEPT !.running = FALSE]
    /\ UNCHANGED <<reader, walker, race, movers, cache, par>>
    /\ UNCHANGED <<cellVars, archVars, gcVars, bcVars>>

\* Lines 56-60: wait_next_applied_mc_block returns the next applied mc block
\* and `handle = next_handle`, the walker then awaits the permit; or the wait
\* fails and `?` returns the error from walk_shard_blocks.
ShardWalkWait(ok) ==
    /\ shards.running
    /\ shards.pc = "wait"
    /\ IF ok
       THEN /\ shards.handle < MaxMc
            /\ shards' = [shards EXCEPT !.handle = @ + 1, !.pc = "acquire"]
       ELSE shards' = [shards EXCEPT !.running = FALSE]
    /\ UNCHANGED <<reader, walker, race, movers, cache, par>>
    /\ UNCHANGED <<cellVars, archVars, gcVars, bcVars>>

MutDispatchWithoutPermit ==
    /\ shards.running
    /\ shards.pc = "acquire"
    /\ shards' = [shards EXCEPT
                    !.pc = "head",
                    !.batch[shards.handle] =
                        [pc |-> "enumerating", idx |-> 1, ok |-> FALSE]]
    /\ UNCHANGED <<reader, walker, race, movers, cache, par>>
    /\ UNCHANGED <<cellVars, archVars, gcVars, bcVars>>

\* Lines 60-65: acquire_owned returns the permit (the walker waits here while
\* there is none) and load_shard_blocks is spawned with it for the block the
\* wait returned; the walker is back at the loop head.
ShardWalkAcquire ==
    /\ shards.running
    /\ shards.pc = "acquire"
    /\ shards.permits > 0
    /\ shards' = [shards EXCEPT
                    !.pc = "head",
                    !.permits = @ - 1,
                    !.batch[shards.handle] =
                        [pc |-> "enumerating", idx |-> 1, ok |-> FALSE]]
    /\ UNCHANGED <<reader, walker, race, movers, cache, par>>
    /\ UNCHANGED <<cellVars, archVars, gcVars, bcVars>>

\* load_shard_blocks, one pass of `for (_, shard_block_id) in ...`:
\* load_handle fails and `?` returns (dropping the permit), or the handle is
\* applied (continue), or a retry task is spawned for the shard block.
ShardEnumerate(mc, outcome) ==
    /\ shards.batch[mc].pc = "enumerating"
    /\ LET i    == shards.batch[mc].idx
           last == i = Len(ShardBlocksOf(mc))
           next == [pc |-> IF last THEN "joining" ELSE "enumerating",
                    idx |-> i + 1, ok |-> FALSE]
       IN  shards' =
             IF outcome = "load_handle_err"
             THEN [shards EXCEPT
                     !.batch[mc] = [pc |-> "returned", idx |-> i, ok |-> FALSE],
                     !.permits = @ + 1]
             ELSE IF outcome = "is_applied"
             THEN [shards EXCEPT !.batch[mc] = next,
                                 !.task[<<mc, i>>] = "skipped"]
             ELSE [shards EXCEPT !.batch[mc] = next,
                                 !.task[<<mc, i>>] = "retry"]
    /\ UNCHANGED <<reader, walker, race, movers, cache, par>>
    /\ UNCHANGED <<cellVars, archVars, gcVars, bcVars>>

\* A task is at the head of `while let Err(e) = ...` and issues
\* engine.download_and_apply_block(&shard_block_id, mc_seq_no, false, 0).
TaskCall(t) ==
    /\ shards.task[t] = "retry"
    /\ shards' = [shards EXCEPT !.task[t] = "calling"]
    /\ UNCHANGED <<reader, walker, race, movers, cache, par>>
    /\ UNCHANGED <<cellVars, archVars, gcVars, bcVars>>

\* The call returns: Ok ends the loop and the task, Err goes round again.
TaskReturn(t, ok) ==
    /\ shards.task[t] = "calling"
    /\ shards' = [shards EXCEPT !.task[t] = IF ok THEN "done" ELSE "retry"]
    /\ UNCHANGED <<reader, walker, race, movers, cache, par>>
    /\ UNCHANGED <<cellVars, archVars, gcVars, bcVars>>

MutJoinStoresOnError(mc, outcome) ==
    /\ shards.batch[mc].pc = "joining"
    /\ \A i \in 1..Len(ShardBlocksOf(mc)) : ~TaskAlive(<<mc, i>>)
    /\ shards' = [shards EXCEPT
                    !.batch[mc] = [pc |-> "returned", idx |-> @.idx,
                                   ok |-> outcome = "ok"],
                    !.shards_client_mc = mc,
                    !.permits = @ + 1]
    /\ UNCHANGED <<reader, walker, race, movers, cache, par>>
    /\ UNCHANGED <<cellVars, archVars, gcVars, bcVars>>

\* load_shard_blocks after the loop: join_all(tasks) has every task's result;
\* a JoinError or a failing read_struct returns the error, otherwise the
\* shards client mc block id is stored; the permit is dropped either way.
ShardJoin(mc, outcome) ==
    /\ shards.batch[mc].pc = "joining"
    /\ \A i \in 1..Len(ShardBlocksOf(mc)) : ~TaskAlive(<<mc, i>>)
    /\ shards' = [shards EXCEPT
                    !.batch[mc] = [pc |-> "returned", idx |-> @.idx,
                                   ok |-> outcome = "ok"],
                    !.shards_client_mc = IF outcome = "ok" THEN mc ELSE @,
                    !.permits = @ + 1]
    /\ UNCHANGED <<reader, walker, race, movers, cache, par>>
    /\ UNCHANGED <<cellVars, archVars, gcVars, bcVars>>

\* The engine is shut down: engine.is_working() is false from now on.
ShardEngineStops ==
    /\ shards.working
    /\ shards' = [shards EXCEPT !.working = FALSE]
    /\ UNCHANGED <<reader, walker, race, movers, cache, par>>
    /\ UNCHANGED <<cellVars, archVars, gcVars, bcVars>>

NextShards ==
    \/ ShardWalkHead
    \/ ShardWalkExit
    \/ \E ok \in BOOLEAN : ShardWalkWait(ok)
    \/ ShardWalkAcquire
    \/ \E mc \in McBlocks :
         \E outcome \in {"load_handle_err", "is_applied", "spawn"} :
           ShardEnumerate(mc, outcome)
    \/ \E t \in ShardTasks : TaskCall(t)
    \/ \E t \in ShardTasks : \E ok \in BOOLEAN : TaskReturn(t, ok)
    \/ \E mc \in McBlocks : \E outcome \in {"ok", "join_err", "read_err"} :
         ShardJoin(mc, outcome)
    \/ ShardEngineStops

SpecShards == InitShards /\ [][NextShards]_vars

\* The executor runs every spawned task and every call returns.
SpecShardsFair ==
    /\ SpecShards
    /\ \A t \in ShardTasks : WF_vars(TaskCall(t))
    /\ \A t \in ShardTasks : WF_vars(\E ok \in BOOLEAN : TaskReturn(t, ok))
    /\ \A mc \in McBlocks :
         WF_vars(\E outcome \in {"load_handle_err", "is_applied", "spawn"} :
                   ShardEnumerate(mc, outcome))
    /\ \A mc \in McBlocks :
         WF_vars(\E outcome \in {"ok", "join_err", "read_err"} :
                   ShardJoin(mc, outcome))

\* ------------------------------------------------ claims on the shard batches

\* The mc blocks that have a task alive.
ActiveBatches == {mc \in McBlocks : \E i \in 1..2 : TaskAlive(<<mc, i>>)}

\* C13 (as claimed): shard batch serialization. Tasks of two different mc
\* blocks are never alive together, and once load_shard_blocks has returned
\* for an mc block (Ok or Err) none of its tasks is alive.
C13_ShardBatchSerialization ==
    /\ Cardinality(ActiveBatches) <= 1
    /\ \A mc \in McBlocks :
         shards.batch[mc].pc = "returned" => mc \notin ActiveBatches

\* C20 (as claimed): shutdown stops retries. Once engine.is_working() is
\* false, eventually no shard-block task is issuing download_and_apply_block
\* attempts any more, even if every attempt fails.
C20_ShutdownStopsRetries ==
    (~shards.working) ~> (\A t \in ShardTasks : ~TaskAlive(t))

\* C24: the shards client position follows the applied shard blocks.
\* shards_client_mc_block_id is the id of an mc block only if
\* load_shard_blocks returned Ok for it with every shard block it refers to
\* either applied before or applied by its task; an mc block whose
\* load_shard_blocks returned an error is never the stored id.
C24_ShardsClientAfterShardBlocks ==
    \A mc \in McBlocks :
        /\ shards.shards_client_mc = mc =>
              /\ shards.batch[mc].pc = "returned"
              /\ shards.batch[mc].ok
              /\ \A i \in 1..Len(ShardBlocksOf(mc)) :
                   shards.task[<<mc, i>>] \in {"done", "skipped"}
        /\ (shards.batch[mc].pc = "returned" /\ ~shards.batch[mc].ok)
              => shards.shards_client_mc # mc

\* The batch of mc block 2 was aborted after one of its tasks had applied a
\* block, and the batch of MaxMc then stored its id with one shard block
\* applied by a task and the other found applied.
C24_Witness ==
    /\ shards.batch[2].pc = "returned"
    /\ ~shards.batch[2].ok
    /\ shards.task[<<2, 1>>] = "done"
    /\ shards.shards_client_mc = MaxMc
    /\ shards.task[<<MaxMc, 1>>] = "done"
    /\ shards.task[<<MaxMc, 2>>] = "skipped"

\* C28 (as claimed): walkers survive errors. walk_shard_blocks does not
\* return while engine.is_working() is true: an error inside an iteration
\* (a failed wait for the next applied mc block included) is retried at the
\* loop head.
C28_WalkersSurviveErrors ==
    shards.working => shards.running

\* C33: shards_client_mc_block_id only moves forward. Every value stored by
\* store_shards_client_mc_block_id has a greater seq_no than the one it
\* replaces, and it is an mc block that was handed to the walker.
C33_ShardsClientMovesForward ==
    [][ shards'.shards_client_mc # shards.shards_client_mc
        => /\ shards'.shards_client_mc > shards.shards_client_mc
           /\ shards'.shards_client_mc <= shards.handle ]_vars

\* The batches of mc block 2 and of MaxMc both stored their id, one after
\* the other, while the walker was at MaxMc.
C33_Witness ==
    /\ shards.batch[2].pc = "returned"
    /\ shards.batch[2].ok
    /\ shards.batch[MaxMc].pc = "returned"
    /\ shards.batch[MaxMc].ok
    /\ shards.shards_client_mc = MaxMc
    /\ shards.handle = MaxMc

(***************************************************************************)
(*                  BLOCK BROADCASTS BESIDE THE WALKERS                    *)
(***************************************************************************)

\* Bound: the walkers advance last_applied_mc up to MaxApplied.
MaxApplied == 3

\* The process_block_broadcast calls that can be in flight together.
RaceCalls == {"p", "q"}

\* The blocks broadcast while the walkers run: masterchain blocks around the
\* walker's position and a shard block that enters the shard-apply window
\* when the shards client has reached masterchain block 3.
RaceBlocks ==
    { McBlock(2), McBlock(3),
      [shard |-> "A", seq_no |-> 9, master_ref |-> 3 + ShardApplyLag] }

\* The validator subset of the key block in force: three equal weights.
RaceValidators == [i \in 1..3 |-> 1]

\* The broadcasts that arrive: signed by all three validators.
RaceBroadcasts ==
    [ id : RaceBlocks,
      prev_key_block_seqno : {0},
      signatures : {1..3},
      hash_ok : {TRUE},
      fails : {""} ]

InitRace ==
    /\ validators = RaceValidators
    /\ block_store = FreshStore(RaceBlocks \cup WalkBlocks(MaxApplied))
    /\ last_applied_mc = 1
    /\ shards_client_mc = 1
    /\ race = [calls |-> [c \in RaceCalls |-> IdleCall]]
    /\ walker = WalkerAt(MaxApplied)
    /\ reader = <<>>
    /\ shards = <<>>
    /\ movers = <<>>
    /\ cache = <<>>
    /\ par = <<>>
    /\ IdleCells
    /\ IdleArchive
    /\ IdleGc

\* load_shard_blocks line 179 for the batch of masterchain block mc, an
\* applied block the shard walker was handed after the stored one: the
\* batches are handed out in order and one that fails stores nothing.
ShardsClientAdvances(mc) ==
    /\ shards_client_mc < mc
    /\ mc <= last_applied_mc
    /\ shards_client_mc' = mc
    /\ UNCHANGED <<validators, block_store, last_applied_mc>>
    /\ UNCHANGED <<reader, walker, shards, race, movers, cache, par>>
    /\ UNCHANGED <<cellVars, archVars, gcVars>>

\* A broadcast arrives: it is call p, or call q while p is running.
RaceCall(c, broadcast) ==
    /\ c = "q" => race.calls["p"].pc \notin {"idle", "done"}
    /\ BroadcastCall(c, broadcast)

NextRace ==
    \/ \E c \in RaceCalls : \E broadcast \in RaceBroadcasts :
         RaceCall(c, broadcast)
    \/ BroadcastSteps(RaceCalls)
    \/ WalkSteps({TRUE}, TRUE)
    \/ \E mc \in 2..MaxApplied : ShardsClientAdvances(mc)

SpecRace == InitRace /\ [][NextRace]_vars

\* --------------------------------------- claims on the broadcast apply window

\* Whether block `id` is inside the apply window of the engine's ids as
\* they are now.
InWindow(id) ==
    IF is_masterchain(id.shard)
    THEN id.seq_no <= last_applied_mc + 1
    ELSE id.master_ref <= shards_client_mc + 8

\* The step is call c of process_block_broadcast evaluating its gate.
AtGateStep(c) ==
    /\ race.calls[c].pc \in {"data_stored", "gate"}
    /\ race'.calls[c].pc \notin {"data_stored", "gate", "store_proof"}
    /\ ~(race'.calls[c].pc = "done" /\ race'.calls[c].result = "Err")

\* C14: broadcast apply window. Whatever the walkers do meanwhile, a call
\* goes on to apply_block_ext for a masterchain block only if its seq_no is
\* at most the last applied mc seq_no at that moment + 1, for a shard block
\* only if its master_ref is at most shards_client_mc + 8 at that moment; a
\* broadcast that is outside the window at the gate returns with the block
\* stored and not applied.
C14_BroadcastApplyWindow ==
    [][ \A c \in RaceCalls :
          AtGateStep(c) =>
            /\ race'.calls[c].pc = "apply" => InWindow(race.calls[c].broadcast.id)
            /\ ~InWindow(race.calls[c].broadcast.id) =>
                 /\ race'.calls[c].pc = "done"
                 /\ race'.calls[c].result = "Stored"
                 /\ block_store'[race.calls[c].broadcast.id].has_data
                 /\ block_store'[race.calls[c].broadcast.id].has_proof
                 /\ ~block_store'[race.calls[c].broadcast.id].is_applied ]_vars

\* A broadcast of a masterchain block passed its gate on a last applied id
\* read before the block was applied by someone else, and another broadcast,
\* of a shard block outside the window, was stored and not applied.
C14_Witness ==
    /\ \E c \in RaceCalls :
         /\ race.calls[c].pc = "apply"
         /\ race.calls[c].broadcast.id.shard = "mc"
         /\ race.calls[c].broadcast.id.seq_no <= last_applied_mc
    /\ \E c \in RaceCalls :
         /\ race.calls[c].pc = "done"
         /\ race.calls[c].result = "Stored"
         /\ race.calls[c].broadcast.id.shard = "A"
         /\ ~InWindow(race.calls[c].broadcast.id)
         /\ ~block_store[race.calls[c].broadcast.id].is_applied

\* The calls for block `id` that have passed store_block_data with
\* `updated` and have not returned without apply since.
OwnsApply(id) ==
    {c \in RaceCalls :
        /\ race.calls[c].pc \notin {"idle", "load", "store_data"}
        /\ race.calls[c].broadcast.id = id
        /\ race.calls[c].changed
        /\ race.calls[c].pc = "done" => race.calls[c].result = "Applied"}

\* C27: at most one broadcast invocation applies. Of the
\* process_block_broadcast invocations for one block that run together, one
\* whose store_block_data or store_block_proof reports not-updated returns
\* success without reaching apply, so at most one of them passes the stores
\* and at most one calls apply_block_ext.
C27_OneBroadcastApplies ==
    /\ \A id \in RaceBlocks : Cardinality(OwnsApply(id)) <= 1
    /\ \A id \in RaceBlocks :
         Cardinality({c \in RaceCalls :
                        /\ race.calls[c].pc \in {"apply", "done"}
                        /\ race.calls[c].broadcast.id = id
                        /\ race.calls[c].pc = "done"
                              => race.calls[c].result = "Applied"}) <= 1
    /\ \A c \in RaceCalls :
         (race.calls[c].pc = "done" /\ race.calls[c].result = "NotUpdated")
            => /\ block_store[race.calls[c].broadcast.id].has_data
               /\ \A d \in OwnsApply(race.calls[c].broadcast.id) : d # c

\* Two invocations for the same block passed the validations together; one
\* stored and applied it, the other found the data stored and returned.
C27_Witness ==
    \E c, d \in RaceCalls :
        /\ race.calls[c].pc = "done"
        /\ race.calls[c].result = "Applied"
        /\ race.calls[d].pc = "done"
        /\ race.calls[d].result = "NotUpdated"
        /\ ~race.calls[d].changed
        /\ race.calls[d].broadcast.id = race.calls[c].broadcast.id

(***************************************************************************)
(*               ARCHIVE MANAGER: CONCURRENT ARCHIVE EXPORT                *)
(***************************************************************************)

\* The blocks they archive: the first blocks of two consecutive packages.
MoverBlocks == {ARCHIVE_SLICE_SIZE, ARCHIVE_SLICE_SIZE + ARCHIVE_PACKAGE_SIZE}

InitMovers ==
    /\ InitManager(MoverThreads)
    /\ handles = [h \in MoverBlocks |-> Handle(h, FALSE, FALSE)]

\* A thread calls move_into_archive or move_into_archive_with_data.
MoverCalls ==
    \E t \in DOMAIN movers : \E h \in MoverBlocks : \E with_data \in BOOLEAN :
        MoverCall(t, h, with_data)

NextMovers ==
    \/ MoverCalls
    \/ MoverSteps(BOOLEAN, BOOLEAN)
    \/ \E h \in MoverBlocks : \E k \in {"body", "proof"} : ReaderAcquire(h, k)
    \/ \E h \in MoverBlocks : \E k \in {"body", "proof"} : ReaderDrop(h, k)

SpecMovers == InitMovers /\ [][NextMovers]_vars

\* ------------------------------------------------ claims on archive export

\* How many times a segment was merged into the archives column.
RECURSIVE CountIn(_, _)
CountIn(seq, seg) ==
    IF seq = <<>> THEN 0
    ELSE (IF Head(seq) = seg THEN 1 ELSE 0) + CountIn(Tail(seq), seg)

RECURSIVE TimesMerged(_, _)
TimesMerged(ids, seg) ==
    IF ids = {} THEN 0
    ELSE LET id == CHOOSE x \in ids : TRUE
         IN  CountIn(archives[id], seg) + TimesMerged(ids \ {id}, seg)

\* The invocations on handle h that have won the transition and not lost it.
Winners(h) == {t \in MoverThreads : movers[t].pc # "idle" /\ movers[t].h = h
                                    /\ movers[t].won}

\* C16: archive export is once-only. Among any number of sequential or
\* concurrent calls on a handle at most one wins is_moving_to_archive and
\* merges; a block's body and proof segments are in the archives at most
\* once; is_archived is set only with is_moving_to_archive; neither flag is
\* ever cleared.
C16_ArchiveExportOnce ==
    /\ [](\A h \in MoverBlocks :
            /\ Cardinality(Winners(h)) <= 1
            /\ \A kind \in {"Block", "Proof", "ProofLink"} :
                 TimesMerged(DOMAIN archives, [block |-> h, kind |-> kind]) <= 1
            /\ handles[h].is_archived => handles[h].is_moving_to_archive)
    /\ [][\A h \in MoverBlocks :
            /\ handles[h].is_archived => handles'[h].is_archived
            /\ handles[h].is_moving_to_archive
                  => handles'[h].is_moving_to_archive]_vars

\* Both blocks were exported while other calls on the same handles lost the
\* transition or found the block archived.
C16_Witness ==
    /\ \A h \in MoverBlocks :
         /\ handles[h].is_archived
         /\ TimesMerged(DOMAIN archives, [block |-> h, kind |-> "Block"]) = 1
    /\ \E t \in MoverThreads : movers[t].pc = "done" /\ ~movers[t].won
    /\ Cardinality({t \in MoverThreads : movers[t].pc = "done"}) = 3

\* C31 (as claimed): is_archived implies durable segments. A handle whose
\* is_archived flag is set has an archive id chosen for it and its body and
\* proof segments in the archives column under that id, also when the
\* batch write failed.
C31_ArchivedImpliesSegments ==
    \A h \in MoverBlocks :
        handles[h].is_archived =>
            /\ h \in DOMAIN assigned
            /\ assigned[h] \in DOMAIN archives
            /\ \A i \in 1..Len(Segments(h, handles[h])) :
                 CountIn(archives[assigned[h]], Segments(h, handles[h])[i]) >= 1

\* C32 (as claimed): a successful return means archived. When a call on a
\* handle has returned Ok and no other call on that handle is running, the
\* handle's is_archived flag is set, also when an earlier call won
\* is_moving_to_archive and failed.
C32_OkReturnMeansArchived ==
    \A t \in MoverThreads :
        ( /\ movers[t].pc = "done"
          /\ movers[t].ok
          /\ \A u \in MoverThreads :
               (movers[u].pc # "idle" /\ movers[u].h = movers[t].h)
                  => movers[u].pc = "done" )
        => handles[movers[t].h].is_archived

(***************************************************************************)
(*                     CELL STORAGE: THE WEAK CELL CACHE                   *)
(***************************************************************************)

\* Bound: the number of Arc<StorageCell> handles held on one StorageCell.
MaxHolders == 2

\* The StorageCell objects that can be materialized for one hash, in turn.
Generations == <<"first", "second", "third">>

\* The hashes that are loaded, and the root that is stored and removed.
LoadHashes == {"C0"}

CacheRoots == {"C0"}

\* A StorageCell that has not been created yet.
Unborn == [state |-> "unborn", strong |-> 0]

\* refcount::strip_refcount: the body of a row whose refcount is positive.
strip_refcount(value) == value.present /\ value.rc > 0 /\ value.body

\* Weak::upgrade on the cache entry of `hash`: the generation it yields, or
\* 0 when there is no entry or the StorageCell has no strong handle left.
Upgrade(c, hash) ==
    LET e == c.entry[hash]
    IN  IF e # 0 /\ c.objs[hash][e].strong > 0 THEN e ELSE 0

\* The next StorageCell to be created for `hash` (0: none left in the model).
NextGeneration(c, hash) ==
    IF \E g \in DOMAIN Generations : c.objs[hash][g].state = "unborn"
    THEN CHOOSE g \in DOMAIN Generations :
           /\ c.objs[hash][g].state = "unborn"
           /\ \A k \in DOMAIN Generations :
                c.objs[hash][k].state = "unborn" => g <= k
    ELSE 0

\* The threads that call load_cell.
LoadThreads == {"a", "b"}

\* A thread that is not inside load_cell.
NoLoad == [pc |-> "idle", hash |-> "C0", g |-> 0, rc |-> 0]

\* What load_cell returned to its caller, with the on-disk refcount of the
\* hash at the lookup (cache hit) or at the read of the row (disk path).
LoadReturn(ok, err, from, hash, rc) ==
    [ok |-> ok, err |-> err, from |-> from, hash |-> hash, rc |-> rc]

InitCache ==
    /\ cells = [h \in Hashes |-> NoRow]
    /\ batch = <<>>
    /\ pending = FALSE
    /\ log = <<>>
    /\ cache = [entry |-> [h \in LoadHashes |-> 0],
                objs |-> [h \in LoadHashes |->
                            [g \in DOMAIN Generations |-> Unborn]],
                calls |-> [t \in LoadThreads |-> NoLoad],
                last |-> LoadReturn(FALSE, "", "none", "C0", 0)]
    /\ reader = <<>>
    /\ walker = <<>>
    /\ shards = <<>>
    /\ race = <<>>
    /\ movers = <<>>
    /\ par = <<>>
    /\ IdleArchive
    /\ IdleGc
    /\ IdleBroadcast

\* load_cell(hash), lines 147-151: the lookup in cells_cache and the upgrade
\* of the weak entry. A hit returns the StorageCell to the caller, who keeps
\* the Arc; a miss goes on to the read of the row with the map lock released.
\* Thread "b" enters only while "a" is inside the call.
LoadLookup(t, hash) ==
    /\ cache.calls[t].pc = "idle"
    /\ t = "b" => cache.calls["a"].pc # "idle"
    /\ LET up == Upgrade(cache, hash)
       IN  IF up # 0
           THEN /\ cache.objs[hash][up].strong < MaxHolders
                /\ cache' = [cache EXCEPT
                               !.objs[hash][up].strong = @ + 1,
                               !.last = LoadReturn(TRUE, "", "cache", hash,
                                                   EffectiveRc(cells, hash))]
           ELSE cache' = [cache EXCEPT
                            !.calls[t] = [NoLoad EXCEPT !.pc = "read",
                                                        !.hash = hash]]
    /\ UNCHANGED <<reader, walker, shards, race, movers, par>>
    /\ UNCHANGED <<cellVars, archVars, gcVars, bcVars>>

\* load_cell, lines 153-166: db.cells.get, strip_refcount and
\* StorageCell::deserialize. CellNotFound and InvalidCell return; otherwise
\* Arc::new(cell) creates a StorageCell that only this thread holds.
LoadRead(t, deser_ok) ==
    /\ cache.calls[t].pc = "read"
    /\ LET hash == cache.calls[t].hash
           rc   == EffectiveRc(cells, hash)
           g    == NextGeneration(cache, hash)
       IN  IF ~strip_refcount(cells[hash])
           THEN cache' = [cache EXCEPT
                            !.calls[t] = NoLoad,
                            !.last = LoadReturn(FALSE, "CellNotFound", "disk",
                                                hash, rc)]
           ELSE IF ~deser_ok
           THEN cache' = [cache EXCEPT
                            !.calls[t] = NoLoad,
                            !.last = LoadReturn(FALSE, "InvalidCell", "disk",
                                                hash, rc)]
           ELSE /\ g # 0
                /\ cache' = [cache EXCEPT
                               !.objs[hash][g] = [state |-> "new", strong |-> 1],
                               !.calls[t] = [pc |-> "insert", hash |-> hash,
                                             g |-> g, rc |-> rc]]
    /\ UNCHANGED <<reader, walker, shards, race, movers, par>>
    /\ UNCHANGED <<cellVars, archVars, gcVars, bcVars>>

\* load_cell, lines 167-169: cells_cache.insert(hash, Arc::downgrade(&cell))
\* replaces whatever entry the hash has, and the cell is returned.
LoadInsert(t) ==
    /\ cache.calls[t].pc = "insert"
    /\ LET call == cache.calls[t]
       IN  cache' = [cache EXCEPT
                       !.entry[call.hash] = call.g,
                       !.objs[call.hash][call.g].state = "alive",
                       !.calls[t] = NoLoad,
                       !.last = LoadReturn(TRUE, "", "disk", call.hash, call.rc)]
    /\ UNCHANGED <<reader, walker, shards, race, movers, par>>
    /\ UNCHANGED <<cellVars, archVars, gcVars, bcVars>>

\* A consumer drops an Arc<StorageCell>; the last one leaves the cell with
\* its destructor still to run.
ReleaseCell(hash, g) ==
    /\ cache.objs[hash][g].state = "alive"
    /\ cache' = [cache EXCEPT !.objs[hash][g] =
                   [state |-> IF @.strong = 1 THEN "dying" ELSE "alive",
                    strong |-> @.strong - 1]]
    /\ UNCHANGED <<reader, walker, shards, race, movers, par>>
    /\ UNCHANGED <<cellVars, archVars, gcVars, bcVars>>

\* Drop for StorageCell: cell_storage.drop_cell(&repr_hash), which removes
\* the cache entry under the hash.
DropCell(hash, g) ==
    /\ cache.objs[hash][g].state = "dying"
    /\ cache' = [cache EXCEPT !.objs[hash][g].state = "gone",
                              !.entry[hash] = 0]
    /\ UNCHANGED <<reader, walker, shards, race, movers, par>>
    /\ UNCHANGED <<cellVars, archVars, gcVars, bcVars>>

NextCache ==
    \/ \E root \in CacheRoots : StoreCell(root)
    \/ \E root \in CacheRoots : RemoveCell(root)
    \/ WriteBatch
    \/ \E t \in LoadThreads : \E hash \in LoadHashes : LoadLookup(t, hash)
    \/ \E t \in LoadThreads : \E deser_ok \in BOOLEAN : LoadRead(t, deser_ok)
    \/ \E t \in LoadThreads : LoadInsert(t)
    \/ \E hash \in LoadHashes : \E g \in DOMAIN Generations : ReleaseCell(hash, g)
    \/ \E hash \in LoadHashes : \E g \in DOMAIN Generations : DropCell(hash, g)

SpecCache == InitCache /\ [][NextCache]_vars

\* ------------------------------------------------- claims on the weak cache

\* C17 (as claimed): the weak cache never returns a dead cell. A load_cell
\* that returns a cell, from the cache or from disk, found the on-disk
\* refcount of the hash positive at the time of the call.
C17_CacheNeverReturnsDeadCell ==
    cache.last.ok => cache.last.rc > 0

\* C26 (as claimed): load_cell fails with CellNotFound whenever the row of
\* the hash is absent or its refcount is <= 0, and fails with CellNotFound
\* only then; a row with refcount <= 0 is never returned as a cell.
C26_LoadCellNotFound ==
    cache.last.from # "none" =>
        /\ cache.last.rc <= 0 => (~cache.last.ok /\ cache.last.err = "CellNotFound")
        /\ cache.last.err = "CellNotFound" => cache.last.rc <= 0

\* The StorageCells of `hash` that load_cell has returned and that still
\* have a strong handle.
LiveCells(hash) ==
    {g \in DOMAIN Generations : cache.objs[hash][g].state = "alive"}

\* C30 (as claimed): cell identity in the cache. At most one live
\* StorageCell exists per hash, and while one exists the cache entry of the
\* hash upgrades to that object: the drop of an older object does not
\* remove the weak entry of a newer live one.
C30_CellIdentityInCache ==
    \A hash \in LoadHashes :
        /\ Cardinality(LiveCells(hash)) <= 1
        /\ \A g \in LiveCells(hash) : Upgrade(cache, hash) = g

(***************************************************************************)
(*                  CELL STORAGE: INVOCATIONS IN PARALLEL                  *)
(***************************************************************************)

\* Bound: the number of store_cell / remove_cell invocations whose batches
\* are not written yet.
MaxPar == 3

\* An invocation of store_cell or remove_cell that has not returned yet or
\* whose batch is not written yet: where it is in its traversal (stack, and
\* for store_cell the cell `current` and the index i of the reference read
\* next), its transaction (`transaction` of store_cell, `states` of
\* remove_cell) and, once it has returned, the merges of its batch.
Invocation(op, root) ==
    [op |-> op, root |-> root, pc |-> "read", stack |-> <<>>,
     current |-> root, i |-> 0,
     transaction |-> EmptyTransaction, states |-> EmptyRemoves,
     merges |-> <<>>]

\* The invocation has returned Ok with `merges` appended to its batch.
ReturnedOk(inv, merges) ==
    [Invocation(inv.op, inv.root) EXCEPT !.pc = "write", !.merges = merges]

InitPar ==
    /\ cells = [h \in Hashes |-> NoRow]
    /\ batch = <<>>
    /\ pending = FALSE
    /\ log = <<>>
    /\ par = [inflight |-> {},
              stored |-> {},
              held |-> {}]
    /\ reader = <<>>
    /\ walker = <<>>
    /\ shards = <<>>
    /\ race = <<>>
    /\ movers = <<>>
    /\ cache = <<>>
    /\ IdleArchive
    /\ IdleGc
    /\ IdleBroadcast

\* store_cell between two reads of the column: references_count() of
\* `current` is exhausted and the next cell is popped (line 114) until a
\* reference is left to read; an empty stack ends the traversal.
RECURSIVE StoreAdvance(_, _, _)
StoreAdvance(stack, current, i) ==
    IF i <= Len(References(current))
    THEN [done |-> FALSE, stack |-> stack, current |-> current, i |-> i]
    ELSE IF stack = <<>>
    THEN [done |-> TRUE, stack |-> stack, current |-> current, i |-> i]
    ELSE StoreAdvance(SubSeq(stack, 1, Len(stack) - 1), stack[Len(stack)], 1)

\* store_cell after a read: either the next read is fixed, or the traversal
\* is over and Context::finalize appends the merges (line 140).
StoreNext(inv, stack, current, i, transaction, order) ==
    LET n == StoreAdvance(stack, current, i)
    IN  IF n.done
        THEN ReturnedOk(inv, finalize(transaction, order).merges)
        ELSE [inv EXCEPT !.stack = n.stack, !.current = n.current,
                         !.i = n.i, !.transaction = transaction]

\* A thread calls store_cell(&mut its_batch, root), lines 95-111: the read of
\* the root's row (get_pinned_cf_opt, line 100) and insert_cell. A root whose
\* row has a value returns Ok(0) with nothing appended; the caller does not
\* count such a root as held. Each root is stored once.
ParStore(root) ==
    /\ Cardinality(par.inflight) < MaxPar
    /\ root \notin par.stored
    /\ LET inv == Invocation("store", root)
           r   == insert_cell(EmptyTransaction, root, cells[root])
       IN  IF ~r.new
           THEN par' = [par EXCEPT !.stored = @ \cup {root}]
           ELSE \E order \in HashOrder :
                  par' = [par EXCEPT
                            !.inflight = @ \cup
                               {StoreNext(inv, <<root>>, root,
                                          Len(References(root)) + 1,
                                          r.transaction, order)},
                            !.stored = @ \cup {root}]
    /\ UNCHANGED <<reader, walker, shards, race, movers, cache>>
    /\ UNCHANGED <<cellVars, archVars, gcVars, bcVars>>

\* One pass of `for i in 0..current.references_count()` in store_cell, lines
\* 115-133: the read of the row of reference i (line 123) and insert_cell; a
\* cell without a value is pushed.
ParStoreRead(inv) ==
    /\ inv \in par.inflight
    /\ inv.op = "store" /\ inv.pc = "read"
    /\ LET cell == References(inv.current)[inv.i]
           r    == insert_cell(inv.transaction, cell, cells[cell])
           st   == IF r.new THEN Append(inv.stack, cell) ELSE inv.stack
       IN  \E order \in HashOrder :
             par' = [par EXCEPT
                       !.inflight = (@ \ {inv}) \cup
                          {StoreNext(inv, st, inv.current, inv.i + 1,
                                     r.transaction, order)}]
    /\ UNCHANGED <<reader, walker, shards, race, movers, cache>>
    /\ UNCHANGED <<cellVars, archVars, gcVars, bcVars>>

\* remove_cell between two reads of the column: the cells popped while their
\* entry is Occupied (CellState::remove, line 218), until the popped cell has
\* no entry or the stack is empty.
RECURSIVE RemoveAdvance(_, _)
RemoveAdvance(stack, states) ==
    IF stack = <<>> \/ states[stack[Len(stack)]].removes = 0
    THEN [err |-> "", stack |-> stack, states |-> states]
    ELSE LET cell_id == stack[Len(stack)]
             rest    == SubSeq(stack, 1, Len(stack) - 1)
             v       == CellState_remove(states[cell_id], References(cell_id))
         IN  IF v.err # ""
             THEN [err |-> v.err, stack |-> stack, states |-> states]
             ELSE RemoveAdvance(IF v.next.some THEN rest \o v.next.refs ELSE rest,
                                [states EXCEPT ![cell_id] = v.state])

\* remove_cell at a popped cell without an entry, lines 219-252: the read of
\* its row (line 220) and the new CellState, then the cells that need no
\* read. An error returns with the batch as it was; an empty stack ends the
\* traversal and the merges are appended (lines 259-266).
RemoveRead(db, inv, stack, states, order) ==
    LET cell_id == stack[Len(stack)]
        rest    == SubSeq(stack, 1, Len(stack) - 1)
        v       == RemoveVisit(db, cell_id, states)
        n       == RemoveAdvance(IF v.next.some THEN rest \o v.next.refs ELSE rest,
                                 [states EXCEPT ![cell_id] = v.state])
    IN  IF v.err # "" \/ n.err # ""
        THEN {}
        ELSE IF n.stack = <<>>
        THEN {ReturnedOk(inv, RemoveMergesFrom(n.states, order, 1))}
        ELSE {[inv EXCEPT !.stack = n.stack, !.states = n.states]}

\* A thread calls remove_cell(&mut its_batch, .., root) on a root whose store
\* has been written and that it still holds: the first pass of the loop, on
\* the root.
ParRemove(root) ==
    /\ Cardinality(par.inflight) < MaxPar
    /\ root \in par.held
    /\ \E order \in HashOrder :
         par' = [par EXCEPT
                   !.inflight = @ \cup
                      RemoveRead(cells, Invocation("remove", root), <<root>>,
                                 EmptyRemoves, order),
                   !.held = @ \ {root}]
    /\ UNCHANGED <<reader, walker, shards, race, movers, cache>>
    /\ UNCHANGED <<cellVars, archVars, gcVars, bcVars>>

\* A later pass of the loop of remove_cell that reads a row.
ParRemoveRead(inv) ==
    /\ inv \in par.inflight
    /\ inv.op = "remove" /\ inv.pc = "read"
    /\ \E order \in HashOrder :
         par' = [par EXCEPT
                   !.inflight = (@ \ {inv}) \cup
                      RemoveRead(cells, inv, inv.stack, inv.states, order)]
    /\ UNCHANGED <<reader, walker, shards, race, movers, cache>>
    /\ UNCHANGED <<cellVars, archVars, gcVars, bcVars>>

\* A thread writes the batch of its invocation: db.write(batch).
ParWrite(inv) ==
    /\ inv \in par.inflight
    /\ inv.pc = "write"
    /\ cells' = ApplyMerges(cells, inv.merges)
    /\ par' = [par EXCEPT
                 !.inflight = @ \ {inv},
                 !.held = IF inv.op = "store" THEN @ \cup {inv.root} ELSE @]
    /\ UNCHANGED <<batch, pending, log>>
    /\ UNCHANGED <<reader, walker, shards, race, movers, cache>>
    /\ UNCHANGED <<archVars, gcVars, bcVars>>

NextPar ==
    \/ \E root \in Hashes : ParStore(root)
    \/ \E inv \in par.inflight : ParStoreRead(inv)
    \/ \E root \in Hashes : ParRemove(root)
    \/ \E inv \in par.inflight : ParRemoveRead(inv)
    \/ \E inv \in par.inflight : ParWrite(inv)

SpecPar == InitPar /\ [][NextPar]_vars

\* ------------------------------------------- claims on parallel invocations

\* C18 (as claimed): reachability closure under parallel batches. Once the
\* batches of all invocations are written, every row with a positive
\* refcount has all its child rows present with a positive refcount.
C18_ClosureUnderParallelBatches ==
    par.inflight = {} =>
        \A h \in Hashes :
            has_value(cells[h]) =>
                \A i \in 1..Len(References(h)) :
                    has_value(cells[References(h)[i]])

(***************************************************************************)
(*                       VALIDATION BEFORE MUTATION                        *)
(***************************************************************************)

\* The validations of process_block_broadcast, in the order the code runs
\* them (those of the walker's download path are WalkValidations).
BroadcastValidations == {"validator_set_hash", "signature_weight", "proof", "body"}

\* The broadcasts of this specification: the next masterchain block and the
\* shard block, signed by nobody, by two or by all three validators.
CheckedBroadcasts ==
    {b \in AllBroadcasts : /\ b.signatures \in {{}, {1, 2}, {1, 2, 3}}
                        /\ b.prev_key_block_seqno = 0
                        /\ b.id.seq_no # 3}

\* The validations a broadcast passes, from the broadcast itself.
BroadcastPasses(broadcast, vs) ==
    {v \in BroadcastValidations :
        \/ v = "validator_set_hash" /\ broadcast.hash_ok
        \/ v = "signature_weight"
             /\ check_signatures(vs, broadcast.signatures) * 3
                  > total_weight_of(vs) * 2
        \/ v = "proof" /\ broadcast.fails \notin {"proof", "check"}
        \/ v = "body" /\ broadcast.fails # "body"}

\* Both entry points on a node at masterchain block 1, with three validators
\* of equal weight: no broadcast block and no later masterchain block has a
\* handle yet.
InitChecked ==
    /\ validators = [i \in 1..3 |-> 1]
    /\ block_store = FreshStore(BroadcastBlocks \cup WalkBlocks(MaxChain))
    /\ last_applied_mc = 1
    /\ shards_client_mc = 1
    /\ race = [calls |-> [c \in {"p"} |-> IdleCall]]
    /\ walker = WalkerAt(MaxChain)
    /\ reader = <<>>
    /\ shards = <<>>
    /\ movers = <<>>
    /\ cache = <<>>
    /\ par = <<>>
    /\ IdleCells
    /\ IdleArchive
    /\ IdleGc

NextChecked ==
    \/ \E broadcast \in CheckedBroadcasts : BroadcastCall("p", broadcast)
    \/ BroadcastSteps({"p"})
    \/ WalkSteps(BOOLEAN, FALSE)

SpecChecked == InitChecked /\ [][NextChecked]_vars

\* -------------------------------------------------- claims on validation order

\* C19: validate before mutate. A call of process_block_broadcast changes a
\* handle (store_block_data / store_block_proof / apply) only if the
\* broadcast passes the validator-subset hash check, the signature-weight
\* check, the proof check and the body deserialization; the download path of
\* load_next_masterchain_block changes a handle only if the block passes the
\* seq_no successor check, the non-link check, pre_check_block_proof and
\* check_with_master_state; a call whose input fails one of them changes no
\* handle and does not report a stored or applied block.
C19_ValidateBeforeMutate ==
    LET call == race.calls["p"]
    IN  /\ call.pc # "idle" =>
             LET passes == BroadcastPasses(call.broadcast, validators)
             IN  /\ call.changed => passes = BroadcastValidations
                 /\ call.pc \in {"store_data", "data_stored", "store_proof",
                                 "gate", "apply"}
                       => passes = BroadcastValidations
                 /\ (call.pc = "done" /\ passes # BroadcastValidations)
                       => /\ ~call.changed
                          /\ call.result \in
                               {"Err", "BadValidatorSetHash", "TooSmallWeight",
                                "Duplicate", "Ignored"}
        /\ (walker.last.path = "download" /\ walker.last.changed)
              => walker.last.passes = WalkValidations
        /\ (walker.last.path = "download"
              /\ walker.pc \in {"store_data", "data_stored", "store_proof",
                                "apply"})
              => walker.last.passes = WalkValidations
        /\ (walker.last.path = "download"
              /\ walker.last.passes # WalkValidations)
              => /\ ~walker.last.changed
                 /\ walker.last.result = "Err"

\* A broadcast that fails only the body deserialization was rejected with the
\* handle untouched after another block had been stored, and the walker has
\* rejected a download that fails only check_with_master_state after having
\* stored and applied a block.
C19_Witness ==
    LET call == race.calls["p"]
    IN  /\ call.pc = "done"
        /\ call.result = "Err"
        /\ BroadcastPasses(call.broadcast, validators)
             = BroadcastValidations \ {"body"}
        /\ ~call.changed
        /\ ~block_store[call.broadcast.id].exists
        /\ \E b \in BroadcastBlocks : block_store[b].has_data
        /\ walker.last.result = "Err"
        /\ walker.last.path = "download"
        /\ walker.last.passes = WalkValidations \ {"check_with_master_state"}
        /\ walker.block_id > 1

(***************************************************************************)
(*               ARCHIVE MANAGER: THE INDEX AND THE COLUMN                 *)
(***************************************************************************)

\* The archive ids that have a row when the manager is constructed.
PreloadIds == {20000, 20050, 20200}

\* The arguments remove_outdated_archives is called with.
UntilIds == {20000, 20051, 20131, 20300}

\* The blocks archived beside the old rows: the second is a shard block
\* (proof link), the first may be a key block.
IndexSeqNos == <<20050, 20130, 20260>>

\* A row of an archive written by an earlier run.
OldRow == <<[block |-> 0, kind |-> "Block"]>>

\* ArchiveManager::preload: every key of the archives column is inserted
\* into archive_ids (a value that fails verification is only logged).
preload(col) == {id \in DOMAIN col : TRUE}

\* BTreeSet::split_off(&key): the elements >= key; the set keeps the rest.
split_off(ids, key) == {id \in ids : id >= key}

\* batch.delete_cf(archives, id) for each id, then db.write(batch).
DeleteArchives(col, removed) ==
    [k \in DOMAIN col \ removed |-> col[k]]

MutRemoveSplitsAtUntilId(ids, until_id) ==
    LET below == {id \in ids : id < until_id}
    IN  IF below = {}
        THEN [returns |-> TRUE, ids |-> ids, removed_ids |-> {}]
        ELSE LET retained_ids == split_off(ids, until_id)
                 removed_ids  == ids \ retained_ids
             IN  [returns |-> removed_ids = {}, ids |-> retained_ids,
                  removed_ids |-> removed_ids]

\* ArchiveManager::remove_outdated_archives(until_id), up to the batch: the
\* index after the split, the ids whose rows the batch deletes, and whether
\* the call returns Ok before any write (nothing to remove).
remove_outdated_archives(ids, until_id) ==
    LET below == {id \in ids : id < until_id}
    IN  IF below = {}
        THEN [returns |-> TRUE, ids |-> ids, removed_ids |-> {}]
        ELSE LET retained_ids == split_off(ids, MaxOf(below))
                 removed_ids  == ids \ retained_ids
             IN  [returns |-> removed_ids = {}, ids |-> retained_ids,
                  removed_ids |-> removed_ids]

\* The caller of move_into_archive that runs beside the caller of
\* remove_outdated_archives.
IndexThreads == {"t1"}

\* ArchiveManager::with_db on a database whose archives column holds the rows
\* of an earlier run; the handles are blocks that are not archived yet.
InitIndex ==
    /\ \E keys \in SUBSET PreloadIds :
         /\ archives = [k \in keys |-> OldRow]
         /\ archive_ids = preload([k \in keys |-> OldRow])
    /\ \E key \in BOOLEAN :
         handles = [i \in 1..Len(IndexSeqNos) |->
                       Handle(IndexSeqNos[i], key /\ i = 1, i = 2)]
    /\ assigned = <<>>
    /\ aret = [op |-> "with_db"]
    /\ movers = [t \in IndexThreads |-> IdleMover]
    /\ reader = {}
    /\ walker = <<>>
    /\ shards = <<>>
    /\ race = <<>>
    /\ cache = <<>>
    /\ par = <<>>
    /\ IdleCells
    /\ IdleGc
    /\ IdleBroadcast

\* A thread calls move_into_archive(handle).
IndexMove(t, h) == MoverCall(t, h, FALSE)

\* A thread calls move_into_archive_with_data(handle, block_data,
\* block_proof_data).
IndexMoveWithData(t, h) == MoverCall(t, h, TRUE)

\* remove_outdated_archives(until_id), lines 407-439: archive_ids.write() is
\* taken, the index is split and replaced, and the call returns Ok (nothing
\* to remove) or goes on to the write with the lock held.
RemoveOutdatedArchives(until_id) ==
    /\ ~IdsLocked
    /\ LET r == remove_outdated_archives(archive_ids, until_id)
       IN  /\ archive_ids' = r.ids
           /\ aret' = [op |-> IF r.returns THEN "removed" ELSE "removing",
                       until_id |-> until_id, ok |-> TRUE,
                       removed_ids |-> r.removed_ids]
    /\ UNCHANGED <<archives, handles, assigned>>
    /\ UNCHANGED <<cellVars, gcVars, bcVars, extVars>>

\* remove_outdated_archives, `self.db.write(batch)?` (line 441): the rows of
\* the removed ids are deleted, or the write fails; the lock is released when
\* the call returns.
RemoveWrite(writeOk) ==
    /\ aret.op = "removing"
    /\ archives' = IF writeOk THEN DeleteArchives(archives, aret.removed_ids)
                   ELSE archives
    /\ aret' = [aret EXCEPT !.op = "removed", !.ok = writeOk]
    /\ UNCHANGED <<archive_ids, handles, assigned>>
    /\ UNCHANGED <<cellVars, gcVars, bcVars, extVars>>

NextIndex ==
    \/ \E t \in DOMAIN movers : \E h \in DOMAIN handles : IndexMove(t, h)
    \/ \E t \in DOMAIN movers : \E h \in DOMAIN handles : IndexMoveWithData(t, h)
    \/ MoverSteps(BOOLEAN, BOOLEAN)
    \/ \E until_id \in UntilIds : RemoveOutdatedArchives(until_id)
    \/ \E writeOk \in BOOLEAN : RemoveWrite(writeOk)

SpecIndex == InitIndex /\ [][NextIndex]_vars

\* ------------------------------------------------ claims on the archive index

\* C21 (as claimed): the in-memory archive index mirrors the archives column.
\* After construction and after any sequence of move_into_archive,
\* move_into_archive_with_data and remove_outdated_archives calls, failing
\* writes included, archive_ids is the set of keys that have a row.
C21_IndexMirrorsColumn == archive_ids = DOMAIN archives

\* C22: remove_outdated_archives(until_id). With no registered id strictly
\* below until_id the call changes nothing and returns Ok; otherwise, with g
\* the greatest registered id < until_id, exactly the registered ids strictly
\* below g leave the index, while g and every id >= until_id stay registered;
\* the one batch of the call deletes the rows of exactly the ids that left
\* the index and leaves every other row as it was.
C22_RemoveOutdatedArchives ==
    [][ /\ ( aret' # aret /\ aret'.op \in {"removing", "removed"}
             /\ aret.op # "removing" )
          => LET below == {id \in archive_ids : id < aret'.until_id}
             IN  /\ archives' = archives
                 /\ IF below = {}
                    THEN /\ archive_ids' = archive_ids
                         /\ aret'.op = "removed" /\ aret'.ok
                    ELSE LET g       == MaxOf(below)
                             removed == {id \in archive_ids : id < g}
                         IN  /\ archive_ids' = archive_ids \ removed
                             /\ aret'.removed_ids = removed
                             /\ g \in archive_ids'
                             /\ \A id \in archive_ids :
                                  id >= aret'.until_id => id \in archive_ids'
                             /\ (aret'.op = "removing") = (removed # {})
        /\ ( aret.op = "removing" /\ aret'.op = "removed" )
          => /\ archive_ids' = archive_ids
             /\ IF aret'.ok
                THEN /\ DOMAIN archives' = DOMAIN archives \ aret.removed_ids
                     /\ \A k \in DOMAIN archives' : archives'[k] = archives[k]
                ELSE archives' = archives ]_vars

\* A call removed two ids and their rows, kept g below until_id and an id
\* above until_id, and left a row of a freshly archived block in place.
C22_Witness ==
    /\ aret.op = "removed"
    /\ aret.ok
    /\ Cardinality(aret.removed_ids) = 2
    /\ aret.removed_ids \cap DOMAIN archives = {}
    /\ aret.removed_ids \cap archive_ids = {}
    /\ \E g \in archive_ids : g < aret.until_id
    /\ \E id \in archive_ids : id >= aret.until_id
    /\ \E k \in DOMAIN archives : archives[k] # OldRow

\* C23: compute_archive_id returns an id with
\* id <= mc_seq_no < id + ARCHIVE_PACKAGE_SIZE, whatever the index holds and
\* in whatever order the blocks are archived.
C23_ArchiveIdWithinPackage ==
    \A h \in DOMAIN assigned :
        /\ assigned[h] <= handles[h].mc_seq_no
        /\ handles[h].mc_seq_no < assigned[h] + ARCHIVE_PACKAGE_SIZE

\* One block went into the archive of a registered id that is not
\* slice-aligned, and another, ARCHIVE_PACKAGE_SIZE or more past every
\* registered id, opened an archive of its own.
C23_Witness ==
    /\ \E h \in DOMAIN assigned :
         /\ assigned[h] < handles[h].mc_seq_no
         /\ assigned[h] % ARCHIVE_SLICE_SIZE # 0
    /\ \E h \in DOMAIN assigned :
         /\ assigned[h] = handles[h].mc_seq_no
         /\ ~handles[h].is_key_block
         /\ \E id \in PreloadIds : id \in archive_ids /\ id < assigned[h]

(***************************************************************************)
(*             ARCHIVE MANAGER: ARCHIVE EXPORT BESIDE READERS              *)
(***************************************************************************)

\* The threads that call get_data / get_data_ref on the block's handle.
ExportReaders == {"r1", "r2"}

\* The two per-handle locks: block_data_lock and proof_data_lock.
DataLocks == {"body", "proof"}

\* A tokio::sync::RwLock<()>: the write guard's holder, a writer queued for
\* it (which makes later readers queue behind it), and the read guards.
FreeLock == [writer |-> FALSE, waiting |-> FALSE, readers |-> {}]

\* The locks after the guards move_into_archive holds are dropped.
DropWriteGuards(lock) ==
    [k \in DataLocks |-> [lock[k] EXCEPT !.writer = FALSE, !.waiting = FALSE]]

\* A handle with any combination of has_data and has_proof (or link); no
\* call is running.
InitExport ==
    /\ \E has_data \in BOOLEAN : \E has_proof \in BOOLEAN :
         movers = [handle |-> [has_data |-> has_data, has_proof |-> has_proof],
                   lock |-> [k \in DataLocks |-> FreeLock],
                   mover |-> [pc |-> "idle", read |-> {}, ok |-> FALSE],
                   readers |-> [r \in ExportReaders |->
                                  [pc |-> "idle", kind |-> "body",
                                   by_ref |-> FALSE]]]
    /\ reader = <<>>
    /\ walker = <<>>
    /\ shards = <<>>
    /\ race = <<>>
    /\ cache = <<>>
    /\ par = <<>>
    /\ IdleCells
    /\ IdleArchive
    /\ IdleGc
    /\ IdleBroadcast

\* Where move_into_archive goes after the body: block_data_lock is followed
\* by `if has_proof { proof_data_lock().write().await ...`, else the batch.
AfterBody(m) ==
    IF m.handle.has_proof
    THEN [m EXCEPT !.mover.pc = "proof_wait", !.lock["proof"].waiting = TRUE]
    ELSE [m EXCEPT !.mover.pc = "write"]

\* move_into_archive is called, wins set_is_moving_to_archive and reaches
\* `if has_data { handle.block_data_lock().write().await`.
ExportCall ==
    /\ movers.mover.pc = "idle"
    /\ movers' = IF movers.handle.has_data
                 THEN [movers EXCEPT !.mover.pc = "body_wait",
                                     !.lock["body"].waiting = TRUE]
                 ELSE AfterBody(movers)
    /\ UNCHANGED <<reader, walker, shards, race, cache, par>>
    /\ UNCHANGED <<cellVars, archVars, gcVars, bcVars>>

\* The write guard is granted once no read guard is out.
ExportAcquire(k) ==
    /\ movers.mover.pc = IF k = "body" THEN "body_wait" ELSE "proof_wait"
    /\ movers.lock[k].readers = {}
    /\ movers' = [movers EXCEPT
                    !.lock[k] = [writer |-> TRUE, waiting |-> FALSE,
                                 readers |-> {}],
                    !.mover.pc = IF k = "body" THEN "body_segment"
                                 ELSE "proof_segment"]
    /\ UNCHANGED <<reader, walker, shards, race, cache, par>>
    /\ UNCHANGED <<cellVars, archVars, gcVars, bcVars>>

MutSegmentDropsLock(k, segOk) ==
    /\ movers.mover.pc = IF k = "body" THEN "body_segment" ELSE "proof_segment"
    /\ LET m == [movers EXCEPT !.mover.read = @ \cup {k},
                               !.lock[k].writer = FALSE]
       IN  movers' =
             IF ~segOk
             THEN [m EXCEPT !.mover.pc = "done", !.mover.ok = FALSE,
                            !.mover.read = {},
                            !.lock = DropWriteGuards(m.lock)]
             ELSE IF k = "body" THEN AfterBody(m)
             ELSE [m EXCEPT !.mover.pc = "write"]
    /\ UNCHANGED <<reader, walker, shards, race, cache, par>>
    /\ UNCHANGED <<cellVars, archVars, gcVars, bcVars>>

\* make_archive_segment(&entry_id) under the write guard: the package entry
\* is read; an error returns with `?` (dropping the guards held), otherwise
\* the guard is kept in `Some((lock, data))`.
ExportSegment(k, segOk) ==
    /\ movers.mover.pc = IF k = "body" THEN "body_segment" ELSE "proof_segment"
    /\ LET m == [movers EXCEPT !.mover.read = @ \cup {k}]
       IN  movers' =
             IF ~segOk
             THEN [m EXCEPT !.mover.pc = "done", !.mover.ok = FALSE,
                            !.mover.read = {},
                            !.lock = DropWriteGuards(m.lock)]
             ELSE IF k = "body" THEN AfterBody(m)
             ELSE [m EXCEPT !.mover.pc = "write"]
    /\ UNCHANGED <<reader, walker, shards, race, cache, par>>
    /\ UNCHANGED <<cellVars, archVars, gcVars, bcVars>>

\* compute_archive_id, the batch and db.write(batch)?; the guards are
\* dropped when the function returns, with Ok or with the write's error.
ExportWrite(writeOk) ==
    /\ movers.mover.pc = "write"
    /\ movers' = [movers EXCEPT !.mover.pc = "done", !.mover.ok = writeOk,
                                !.mover.read = {},
                                !.lock = DropWriteGuards(movers.lock)]
    /\ UNCHANGED <<reader, walker, shards, race, cache, par>>
    /\ UNCHANGED <<cellVars, archVars, gcVars, bcVars>>

\* A thread calls get_data (by_ref FALSE) or get_data_ref (TRUE) for the
\* body or the proof and reaches `.read().await`.
ExportReaderCall(r, k, by_ref) ==
    /\ movers.readers[r].pc = "idle"
    /\ movers' = [movers EXCEPT !.readers[r] =
                    [pc |-> "wait", kind |-> k, by_ref |-> by_ref]]
    /\ UNCHANGED <<reader, walker, shards, race, cache, par>>
    /\ UNCHANGED <<cellVars, archVars, gcVars, bcVars>>

\* The read guard is granted: no write guard is out and no writer is queued.
ExportReaderAcquire(r) ==
    /\ movers.readers[r].pc = "wait"
    /\ LET k == movers.readers[r].kind
       IN  /\ ~movers.lock[k].writer
           /\ ~movers.lock[k].waiting
           /\ movers' = [movers EXCEPT !.lock[k].readers = @ \cup {r},
                                       !.readers[r].pc = "reading"]
    /\ UNCHANGED <<reader, walker, shards, race, cache, par>>
    /\ UNCHANGED <<cellVars, archVars, gcVars, bcVars>>

\* package_entries.get(id): get_data copies the value and returns, dropping
\* the guard; get_data_ref returns the guard inside BlockContentsLock (found)
\* or drops it with the error (not found).
ExportReaderGet(r, found) ==
    /\ movers.readers[r].pc = "reading"
    /\ LET k == movers.readers[r].kind
       IN  movers' =
             IF movers.readers[r].by_ref /\ found
             THEN [movers EXCEPT !.readers[r].pc = "holding"]
             ELSE [movers EXCEPT !.readers[r].pc = "idle",
                                 !.lock[k].readers = @ \ {r}]
    /\ UNCHANGED <<reader, walker, shards, race, cache, par>>
    /\ UNCHANGED <<cellVars, archVars, gcVars, bcVars>>

\* The caller of get_data_ref drops the BlockContentsLock.
ExportReaderDrop(r) ==
    /\ movers.readers[r].pc = "holding"
    /\ movers' = [movers EXCEPT
                    !.readers[r].pc = "idle",
                    !.lock[movers.readers[r].kind].readers = @ \ {r}]
    /\ UNCHANGED <<reader, walker, shards, race, cache, par>>
    /\ UNCHANGED <<cellVars, archVars, gcVars, bcVars>>

NextExport ==
    \/ ExportCall
    \/ \E k \in DataLocks : ExportAcquire(k)
    \/ \E k \in DataLocks : \E segOk \in BOOLEAN : ExportSegment(k, segOk)
    \/ \E writeOk \in BOOLEAN : ExportWrite(writeOk)
    \/ \E r \in ExportReaders : \E k \in DataLocks : \E by_ref \in BOOLEAN :
         ExportReaderCall(r, k, by_ref)
    \/ \E r \in ExportReaders : ExportReaderAcquire(r)
    \/ \E r \in ExportReaders : \E found \in BOOLEAN : ExportReaderGet(r, found)
    \/ \E r \in ExportReaders : ExportReaderDrop(r)

SpecExport == InitExport /\ [][NextExport]_vars

\* The executor runs every task that can go on, and a caller that got a
\* BlockContentsLock drops it.
SpecExportFair ==
    /\ SpecExport
    /\ \A k \in DataLocks : WF_vars(ExportAcquire(k))
    /\ \A k \in DataLocks : WF_vars(\E segOk \in BOOLEAN : ExportSegment(k, segOk))
    /\ WF_vars(\E writeOk \in BOOLEAN : ExportWrite(writeOk))
    /\ \A r \in ExportReaders :
         WF_vars(\E found \in BOOLEAN : ExportReaderGet(r, found))
    /\ \A r \in ExportReaders : WF_vars(ExportReaderDrop(r))

\* ---------------------------------------- claims on export beside readers

\* The readers inside the read section of lock k.
InReadSection(k) ==
    {r \in ExportReaders : /\ movers.readers[r].kind = k
                           /\ movers.readers[r].pc \in {"reading", "holding"}}

\* C29: archive export excludes readers. From the moment move_into_archive
\* has read the body (proof) package entry until its batch is written and
\* the call returns, no get_data / get_data_ref call for the body (proof) is
\* inside its read section; and a move_into_archive call that has started
\* always comes to its end, it never deadlocks with the readers.
C29_ExportExcludesReaders ==
    /\ [](\A k \in DataLocks :
            (k \in movers.mover.read \/
             movers.mover.pc = (IF k = "body" THEN "body_segment"
                                ELSE "proof_segment"))
               => InReadSection(k) = {})
    /\ (movers.mover.pc \notin {"idle", "done"}) ~> (movers.mover.pc = "done")

\* The export has read both entries and is about to write, while one reader
\* of the body and one of the proof wait for their read guards.
C29_Witness ==
    /\ movers.mover.pc = "write"
    /\ movers.mover.read = DataLocks
    /\ \E r \in ExportReaders :
         movers.readers[r].pc = "wait" /\ movers.readers[r].kind = "body"
    /\ \E r \in ExportReaders :
         movers.readers[r].pc = "wait" /\ movers.readers[r].kind = "proof"

====
